---------------------------- MODULE Spec2Model ----------------------------
(***************************************************************************)
(* Revenue-share / tier-incentive core of StellarSwipe-Backends:           *)
(* RevenueShareService and TierManagerService                              *)
(* (src/src/providers/revenue-share/revenue-share.service.ts).             *)
(*                                                                         *)
(* Every service method is one atomic action in the sequential             *)
(* specifications; SpecConc splits evaluateProviderWithMetrics at its      *)
(* awaits.                                                                 *)
(***************************************************************************)
EXTENDS Integers, Sequences, FiniteSets, TLC

VARIABLES
    tiers,        \* tierRepo: tierLevel -> RevenueShareTier row
    tierCache,    \* TierManagerService.tierCache: rows ordered by sortOrder
    assignments,  \* assignmentRepo: providerId -> ProviderTierAssignment row
    payouts,      \* payoutRepo: sequence of ProviderRevenuePayout rows, id = index
    now,          \* the clock read by new Date()
    stats,        \* statsRepo: providerId -> ProviderStats row
    lastResult,   \* what the last service call returned or threw
    evals,        \* in-flight evaluateProviderWithMetrics calls (SpecConc)
    retries       \* history: successful retryFailedPayout calls of each payout id

vars == <<tiers, tierCache, assignments, payouts, now, stats, lastResult, evals, retries>>

----------------------------------------------------------------------------
(* Bounds of the model.                                                    *)

MaxPayouts == 1          \* rows the ledger may hold

MaxRetryCount == 5       \* markPayoutFailed calls modelled per payout

MaxEvalPayouts == 3      \* rows the ledger may hold in SpecEval

MaxConcurrent == 2       \* evaluation calls in flight together in SpecConc

MaxConcPayouts == 2      \* rows the ledger may hold in SpecConc

MaxBatchPayouts == 3     \* rows the ledger may hold in SpecBatch

MaxRetainPayouts == 2    \* rows in the ledger up to which SpecRetain starts a round

MaxRecordPayouts == 1    \* rows the ledger may hold in SpecRecord

MaxRecordClock == 4      \* ticks of the clock in SpecRecord: the month changes at 4

MaxPendingPayouts == 3   \* rows the ledger may hold in SpecPending

MaxPendingClock == 1     \* ticks of the clock in SpecPending

MaxStreakClock == 4      \* ticks of the clock in SpecStreak: the month changes at 4

MaxStreakPayouts == 3    \* rows the ledger may hold in SpecStreak

MaxFreshPayouts == 1     \* rows the ledger may hold in SpecFresh

MaxFreshClock == 1       \* ticks of the clock in SpecFresh

MaxInsertPayouts == 2    \* rows the ledger may hold in SpecInsert

MaxWalletPayouts == 2    \* rows the ledger may hold in SpecWallet

MaxEscalatePayouts == 2  \* rows the ledger may hold in SpecEscalate

MaxMonthlyPayouts == 2   \* rows the ledger may hold in SpecMonthly

----------------------------------------------------------------------------
(* Exact decimals (big.js).  A decimal is neg * (w + f / 10^9): a whole    *)
(* part and nine fractional digits, one digit more than the eight that     *)
(* toFixed(8) keeps, so that rounding is visible.                          *)

Nano == 1000000000

Dec(whole, frac) == [neg |-> FALSE, w |-> whole, f |-> frac]

Zero == Dec(0, 0)

\* A negative amount such as "-5"
DecNeg(whole, frac) == [neg |-> TRUE, w |-> whole, f |-> frac]

\* Big.lt(0): zero let through (a mutant of DecLte0)
DecLte0_ZeroAllowed(d) == d.neg

\* Big.lte(0)
DecLte0(d) == d.neg \/ (d.w = 0 /\ d.f = 0)

\* parseFloat(s) > 0
DecGt0(d) == ~DecLte0(d)

\* The magnitude of a is below the magnitude of b
DecMagLt(a, b) == a.w < b.w \/ (a.w = b.w /\ a.f < b.f)

\* The magnitude of a less the magnitude of b, which is not the greater one
DecMagMinus(a, b) ==
    IF a.f >= b.f THEN Dec(a.w - b.w, a.f - b.f)
    ELSE Dec(a.w - b.w - 1, a.f + Nano - b.f)

\* Big.plus
DecPlus(a, b) ==
    LET s == a.f + b.f
    IN  IF a.neg = b.neg
        THEN [neg |-> a.neg, w |-> a.w + b.w + (s \div Nano), f |-> s % Nano]
        ELSE IF DecMagLt(a, b) THEN [DecMagMinus(b, a) EXCEPT !.neg = b.neg]
        ELSE IF DecMagLt(b, a) THEN [DecMagMinus(a, b) EXCEPT !.neg = a.neg]
        ELSE Zero

\* Big.toFixed(8): big.js rounds half up (Big.RM = 1) to eight digits
ToFixed8(d) ==
    LET r == d.f % 10
        g == IF r >= 5 THEN d.f - r + 10 ELSE d.f - r
    IN  [d EXCEPT !.w = d.w + (g \div Nano), !.f = g % Nano]

\* A percentage string with at most two fractional digits, in hundredths
Hundredths(pct) == pct.w * 100 + (pct.f \div 10000000)

\* new Big(baseRevenue).times(new Big(sharePercentage)).div(100), the exact
\* quotient cut after the ninth fractional digit (big.js keeps twenty)
TimesDiv100(base, pct) ==
    LET h    == Hundredths(pct)
        p    == base.w * h
        fa   == base.f \div 100000
        fb   == base.f % 100000
        nano == (p % 10000) * 100000 + fa * h * 10 + ((fb * h) \div 10000)
    IN  Dec((p \div 10000) + (nano \div Nano), nano % Nano)

----------------------------------------------------------------------------
(* Enumerations and the default tier table.                                *)

TierLevels == {"BRONZE", "SILVER", "GOLD", "PLATINUM", "ELITE"}

TIER_ORDER == <<"BRONZE", "SILVER", "GOLD", "PLATINUM", "ELITE">>

\* TIER_ORDER.indexOf(t)
TierIndex(t) == CHOOSE i \in 1..Len(TIER_ORDER) : TIER_ORDER[i] = t

\* undefined or null: of a string, of an object, of a number
NoValue == "undefined"

Null == [null |-> TRUE]

None == <<>>

Some(x) == <<x>>

TierRow(level, pct, winRate, signals, copiers, reputation, perf, retention, order) ==
    [tierLevel |-> level, revenueSharePercentage |-> pct,
     minWinRate |-> winRate, minSignals |-> signals, minCopiers |-> copiers,
     minReputationScore |-> reputation,
     performanceBonusUsdc |-> perf, monthlyRetentionBonusUsdc |-> retention,
     isActive |-> TRUE, sortOrder |-> order]

DEFAULT_TIERS ==
    [t \in TierLevels |->
        CASE t = "BRONZE"   -> TierRow(t, Dec(4, 0),  0,  0,   0,   0,  Zero,        Zero,        1)
          [] t = "SILVER"   -> TierRow(t, Dec(6, 0),  55, 20,  10,  55, Dec(10, 0),  Dec(5, 0),   2)
          [] t = "GOLD"     -> TierRow(t, Dec(8, 0),  62, 50,  50,  65, Dec(50, 0),  Dec(20, 0),  3)
          [] t = "PLATINUM" -> TierRow(t, Dec(9, 0),  68, 100, 150, 75, Dec(150, 0), Dec(50, 0),  4)
          [] t = "ELITE"    -> TierRow(t, Dec(10, 0), 75, 200, 300, 85, Dec(500, 0), Dec(100, 0), 5)]


----------------------------------------------------------------------------
(* External collaborators: the user/wallet directory and the clock.        *)

Providers == {"p1", "p2", "p3"}

\* userRepo: p1 has a wallet, p2 is a user without one, p3 is no user
UserRepo == [p \in {"p1", "p2"} |-> [walletAddress |-> IF p = "p1" THEN "GW1" ELSE ""]]

UserFound(p) == p \in DOMAIN UserRepo

\* now.getFullYear() and now.getMonth() + 1: four ticks of the clock a month
YearOf(t) == 2026 + (t \div 48)

MonthOf(t) == 1 + ((t \div 4) % 12)

----------------------------------------------------------------------------
(* Tier catalog: refreshTierCache and resolveTierForMetrics.               *)

RECURSIVE SortBySortOrder(_)
\* tierRepo.find({ order: { sortOrder: 'ASC' } }) over a set of rows
SortBySortOrder(rows) ==
    IF rows = {} THEN <<>>
    ELSE LET first == CHOOSE r \in rows : \A q \in rows : r.sortOrder <= q.sortOrder
         IN  <<first>> \o SortBySortOrder(rows \ {first})

\* refreshTierCache: the active rows ordered by sortOrder
ActiveTiersSorted(store) ==
    SortBySortOrder({store[t] : t \in {u \in DOMAIN store : store[u].isActive}})

\* The qualification test with > for >= (a mutant of Qualifies)
Qualifies_Strict(m, tier) ==
    /\ m.winRate > tier.minWinRate
    /\ m.totalSignals > tier.minSignals
    /\ m.totalCopiers > tier.minCopiers
    /\ m.reputationScore > tier.minReputationScore

\* The qualification test without the reputation score (a mutant of
\* Qualifies)
Qualifies_NoReputation(m, tier) ==
    /\ m.winRate >= tier.minWinRate
    /\ m.totalSignals >= tier.minSignals
    /\ m.totalCopiers >= tier.minCopiers

\* The qualification test of one tier
Qualifies(m, tier) ==
    /\ m.winRate >= tier.minWinRate
    /\ m.totalSignals >= tier.minSignals
    /\ m.totalCopiers >= tier.minCopiers
    /\ m.reputationScore >= tier.minReputationScore

RECURSIVE TiersFromIndexDown(_, _)
\* The rows whose tier has TIER_ORDER index k, then k - 1, ... in the order
\* they had
TiersFromIndexDown(rows, k) ==
    IF k = 0 THEN <<>>
    ELSE SelectSeq(rows, LAMBDA r : TierIndex(r.tierLevel) = k)
            \o TiersFromIndexDown(rows, k - 1)

RECURSIVE TiersFromIndexUp(_, _)
\* The rows whose tier has TIER_ORDER index k, then k + 1, ...
TiersFromIndexUp(rows, k) ==
    IF k > Len(TIER_ORDER) THEN <<>>
    ELSE SelectSeq(rows, LAMBDA r : TierIndex(r.tierLevel) = k)
            \o TiersFromIndexUp(rows, k + 1)

\* The sort with its comparison turned round, lowest tier first (a mutant of
\* SortByTierOrderDesc)
SortByTierOrderDesc_Ascending(rows) == TiersFromIndexUp(rows, 1)

\* [...getCachedTiers()].sort((a, b) => indexOf(b.tierLevel) - indexOf(a.tierLevel)):
\* a stable sort on the TIER_ORDER index, highest first
SortByTierOrderDesc(rows) == TiersFromIndexDown(rows, Len(TIER_ORDER))

RECURSIVE FirstQualifying(_, _)
\* for (const tier of tiers) { if (qualifies) return tier.tierLevel }
\* return ProviderTierLevel.BRONZE
FirstQualifying(rows, m) ==
    IF rows = <<>> THEN "BRONZE"
    ELSE IF Qualifies(m, Head(rows)) THEN Head(rows).tierLevel
    ELSE FirstQualifying(Tail(rows), m)

\* resolveTierForMetrics: the cached tiers from the highest TIER_ORDER index
\* down, the first that qualifies, BRONZE when none does
ResolveTierForMetrics(cache, m) == FirstQualifying(SortByTierOrderDesc(cache), m)

\* getCachedTiers().find((t) => t.tierLevel === level)
CachedTier(cache, level) ==
    LET hit == {i \in 1..Len(cache) : cache[i].tierLevel = level}
    IN  IF hit = {} THEN Null ELSE cache[CHOOSE i \in hit : \A j \in hit : i <= j]

----------------------------------------------------------------------------
(* Payout ledger.                                                          *)

PayoutIds == 1..Len(payouts)

\* retryCount of a row that recordPayout does not set: the column default
InitialRetryCount == 0

\* The current year whatever the caller supplied (a mutant of PeriodYearOf)
PeriodYearOf_AlwaysNow(supplied, t) == YearOf(t)

\* params.periodYear ?? now.getFullYear()
PeriodYearOf(supplied, t) == IF supplied = None THEN YearOf(t) ELSE supplied[1]

\* params.periodMonth ?? now.getMonth() + 1
PeriodMonthOf(supplied, t) == IF supplied = None THEN MonthOf(t) ELSE supplied[1]

\* recordPayout: the row payoutRepo.create(...) and save(...) store
NewPayout(params, id, t) ==
    [id |-> id,
     providerId |-> params.providerId,
     tierLevel |-> params.tierLevel,
     baseRevenue |-> params.baseRevenue,
     sharePercentage |-> params.sharePercentage,
     revenueShareAmount |-> params.revenueShareAmount,
     bonusAmount |-> params.bonusAmount,
     bonusType |-> params.bonusType,
     totalPayout |-> params.totalPayout,
     assetCode |-> "USDC",
     providerWalletAddress |-> params.providerWalletAddress,
     status |-> "PENDING",
     periodYear |-> PeriodYearOf(params.periodYear, t),
     periodMonth |-> PeriodMonthOf(params.periodMonth, t),
     stellarTxHash |-> NoValue,
     failureReason |-> NoValue,
     retryCount |-> InitialRetryCount,
     paidAt |-> None,
     createdAt |-> t]

\* The parameters of a bonus-only payout (baseRevenue, share and amount '0')
BonusOnlyParams(p, tier, amount, type, wallet, year, month) ==
    [providerId |-> p, tierLevel |-> tier, baseRevenue |-> Zero,
     sharePercentage |-> Zero, revenueShareAmount |-> Zero,
     bonusAmount |-> amount, bonusType |-> type, totalPayout |-> amount,
     providerWalletAddress |-> wallet, periodYear |-> year, periodMonth |-> month]

Result(op, key, error, value) ==
    [op |-> op, key |-> key, error |-> error, value |-> value]

\* recordPayout called on its own
RecordPayout(params) ==
    /\ payouts' = Append(payouts, NewPayout(params, Len(payouts) + 1, now))
    /\ lastResult' = Result("recordPayout", params, "none", payouts'[Len(payouts')])
    /\ UNCHANGED <<tiers, tierCache, assignments, now, stats, evals>>

\* confirmPayout writing a completed payout again (a mutant of ConfirmedRow)
ConfirmedRow_Overwrite(row, txHash, t) ==
    [row EXCEPT !.status = "COMPLETED", !.stellarTxHash = txHash, !.paidAt = Some(t)]

\* confirmPayout: the row it saves, the row itself when already COMPLETED
ConfirmedRow(row, txHash, t) ==
    IF row.status = "COMPLETED" THEN row
    ELSE [row EXCEPT !.status = "COMPLETED", !.stellarTxHash = txHash, !.paidAt = Some(t)]

ConfirmPayout(id, txHash) ==
    /\ IF id \notin PayoutIds
       THEN /\ lastResult' = Result("confirmPayout", [payoutId |-> id, stellarTxHash |-> txHash], "NotFound", Null)
            /\ UNCHANGED payouts
       ELSE /\ payouts' = [payouts EXCEPT ![id] = ConfirmedRow(payouts[id], txHash, now)]
            /\ lastResult' = Result("confirmPayout", [payoutId |-> id, stellarTxHash |-> txHash], "none",
                                    payouts'[id])
    /\ UNCHANGED <<tiers, tierCache, assignments, now, stats, evals>>

\* markPayoutFailed: the row it saves
FailedRow(row, reason) ==
    [row EXCEPT !.status = "FAILED", !.failureReason = reason,
                !.retryCount = row.retryCount + 1]

MarkPayoutFailed(id, reason) ==
    /\ IF id \notin PayoutIds
       THEN /\ lastResult' = Result("markPayoutFailed", [payoutId |-> id], "NotFound", Null)
            /\ UNCHANGED payouts
       ELSE /\ payouts' = [payouts EXCEPT ![id] = FailedRow(payouts[id], reason)]
            /\ lastResult' = Result("markPayoutFailed", [payoutId |-> id], "none", payouts'[id])
    /\ UNCHANGED <<tiers, tierCache, assignments, now, stats, evals>>

\* The limit retryFailedPayout compares retryCount with
MaxRetryAttempts == 5

\* retryFailedPayout refusing only beyond the limit (a mutant of RetryError)
RetryError_BeyondLimit(row) ==
    IF row.status # "FAILED" THEN "InvalidState"
    ELSE IF row.retryCount > MaxRetryAttempts THEN "LimitExceeded"
    ELSE "none"

\* retryFailedPayout without the status check (a mutant of RetryError)
RetryError_NoStatusCheck(row) ==
    IF row.retryCount >= MaxRetryAttempts THEN "LimitExceeded" ELSE "none"

\* retryFailedPayout: which of its two BadRequestExceptions it throws
RetryError(row) ==
    IF row.status # "FAILED" THEN "InvalidState"
    ELSE IF row.retryCount >= MaxRetryAttempts THEN "LimitExceeded"
    ELSE "none"

RetryFailedPayout(id) ==
    /\ IF id \notin PayoutIds
       THEN /\ lastResult' = Result("retryFailedPayout", [payoutId |-> id], "NotFound", Null)
            /\ UNCHANGED payouts
       ELSE IF RetryError(payouts[id]) # "none"
       THEN /\ lastResult' = Result("retryFailedPayout", [payoutId |-> id], RetryError(payouts[id]), Null)
            /\ UNCHANGED payouts
       ELSE /\ payouts' = [payouts EXCEPT ![id] =
                              [@ EXCEPT !.status = "PENDING", !.failureReason = NoValue]]
            /\ lastResult' = Result("retryFailedPayout", [payoutId |-> id], "none", payouts'[id])
    /\ UNCHANGED <<tiers, tierCache, assignments, now, stats, evals>>

\* assignment?.currentTier ?? ProviderTierLevel.BRONZE
CurrentTierOrBronze(p) ==
    IF p \in DOMAIN assignments THEN assignments[p].currentTier ELSE "BRONZE"

\* awardPerformanceBonus: a bonus-only payout at the provider's current tier
AwardPerformanceBonus(p, amount, type) ==
    /\ IF ~UserFound(p)
       THEN /\ lastResult' = Result("awardPerformanceBonus", [providerId |-> p], "NotFound", Null)
            /\ UNCHANGED payouts
       ELSE /\ payouts' = Append(payouts,
                  NewPayout(BonusOnlyParams(p, CurrentTierOrBronze(p), amount, type,
                                            UserRepo[p].walletAddress, None, None),
                            Len(payouts) + 1, now))
            /\ lastResult' = Result("awardPerformanceBonus", [providerId |-> p], "none", payouts'[Len(payouts')])
    /\ UNCHANGED <<tiers, tierCache, assignments, now, stats, evals>>

\* Time passes between two service calls
Tick ==
    /\ now' = now + 1
    /\ UNCHANGED <<tiers, tierCache, assignments, payouts, stats, lastResult, evals>>

----------------------------------------------------------------------------
(* Pending payouts for the dispatcher.                                     *)

\* where: { status: PayoutStatus.PENDING }
PendingMatches(row) == row.status = "PENDING"

\* order: { createdAt: 'ASC' }: the orders in which the database may return
\* the rows ids of the ledger, rows of one createdAt in either order
OldestFirstOrders(ledger, ids) ==
    {s \in [1..Cardinality(ids) -> ids] :
        \A i, j \in 1..Cardinality(ids) :
            i < j => /\ s[i] # s[j]
                     /\ ledger[s[i]].createdAt <= ledger[s[j]].createdAt}

\* getPendingPayouts(limit = 50)
DefaultLimit(limit) == IF limit = None THEN 50 ELSE limit[1]

\* No cut at the limit (a mutant of TakeRows)
TakeRows_All(s, limit) == s

\* take: limit
TakeRows(s, limit) == SubSeq(s, 1, IF limit < Len(s) THEN limit ELSE Len(s))

\* getPendingPayouts
GetPendingPayouts(limit) ==
    /\ \E s \in OldestFirstOrders(payouts, {i \in 1..Len(payouts) : PendingMatches(payouts[i])}) :
          LET taken == TakeRows(s, DefaultLimit(limit))
          IN  lastResult' = Result("getPendingPayouts", [limit |-> limit], "none",
                                   [rows |-> [k \in 1..Len(taken) |-> payouts[taken[k]]]])
    /\ UNCHANGED <<tiers, tierCache, assignments, payouts, now, stats, evals>>

----------------------------------------------------------------------------
(* Win-streak bonus.                                                       *)

\* const thresholds, in the order of the array
StreakThresholds ==
    <<[threshold |-> 20, bonus |-> Dec(200, 0)],
      [threshold |-> 10, bonus |-> Dec(75, 0)],
      [threshold |-> 5, bonus |-> Dec(25, 0)]>>

\* A threshold met as soon as the streak reaches it (a mutant of StreakHit)
StreakHit_AtLeast(streak, t) == streak >= t.threshold

\* streak >= t.threshold && streak % t.threshold === 0
StreakHit(streak, t) == streak >= t.threshold /\ streak % t.threshold = 0

\* thresholds.find(...) from the k-th element on: the first element that the
\* streak hits, Null for undefined
RECURSIVE FindThreshold(_, _)
FindThreshold(streak, k) ==
    IF k > Len(StreakThresholds) THEN Null
    ELSE IF StreakHit(streak, StreakThresholds[k]) THEN StreakThresholds[k]
    ELSE FindThreshold(streak, k + 1)

\* new Date(now.getFullYear(), now.getMonth(), 1), four ticks a month
StartOfMonth(t) == 4 * (t \div 4)

\* The duplicate test that finds no row (a mutant of ExistingStreakBonus)
ExistingStreakBonus_Never(ledger, p, t) == FALSE

\* payoutRepo.findOne({ providerId, bonusType: STREAK,
\*                      createdAt: Between(startOfMonth, now) }) found a row
ExistingStreakBonus(ledger, p, t) ==
    \E i \in 1..Len(ledger) :
        /\ ledger[i].providerId = p
        /\ ledger[i].bonusType = "STREAK"
        /\ ledger[i].createdAt >= StartOfMonth(t)
        /\ ledger[i].createdAt <= t

\* What checkAndIssueStreakBonus returns
StreakResult(issued, amount, streak) ==
    [bonusIssued |-> issued, bonusAmount |-> amount, streakCount |-> streak]

\* checkAndIssueStreakBonus
CheckAndIssueStreakBonus(p) ==
    LET key    == [providerId |-> p]
        streak == IF p \in DOMAIN stats THEN stats[p].streakWins ELSE 0
        match  == FindThreshold(streak, 1)
    IN  /\ IF p \notin DOMAIN stats
           THEN /\ lastResult' = Result("checkAndIssueStreakBonus", key, "none",
                                        StreakResult(FALSE, Zero, 0))
                /\ UNCHANGED payouts
           ELSE IF match = Null \/ ExistingStreakBonus(payouts, p, now)
           THEN /\ lastResult' = Result("checkAndIssueStreakBonus", key, "none",
                                        StreakResult(FALSE, Zero, streak))
                /\ UNCHANGED payouts
           ELSE IF ~UserFound(p)
           THEN /\ lastResult' = Result("checkAndIssueStreakBonus", key, "NotFound", Null)
                /\ UNCHANGED payouts
           ELSE /\ payouts' = Append(payouts,
                      NewPayout(BonusOnlyParams(p, CurrentTierOrBronze(p), match.bonus, "STREAK",
                                                UserRepo[p].walletAddress, None, None),
                                Len(payouts) + 1, now))
                /\ lastResult' = Result("checkAndIssueStreakBonus", key, "none",
                                        StreakResult(TRUE, match.bonus, streak))
        /\ UNCHANGED <<tiers, tierCache, assignments, now, stats, evals>>

\* The signals module writes a provider's current win streak
SetStreak(p, n) ==
    /\ stats' = [stats EXCEPT ![p].streakWins = n]
    /\ lastResult' = Result("setStreak", [providerId |-> p, streakWins |-> n], "none", Null)
    /\ UNCHANGED <<tiers, tierCache, assignments, payouts, now, evals>>

----------------------------------------------------------------------------
(* Tier evaluation.                                                        *)

Metrics(p, winRate, signals, copiers, reputation, wallet) ==
    [providerId |-> p, winRate |-> winRate, totalSignals |-> signals,
     totalCopiers |-> copiers, reputationScore |-> reputation, walletAddress |-> wallet]

\* The metrics built with the wallet address of the provider's user row (a
\* mutant of MetricsOfStats)
MetricsOfStats_WithWallet(p) ==
    LET wallet == IF UserFound(p) THEN UserRepo[p].walletAddress ELSE ""
    IN  IF p \in DOMAIN stats
        THEN Metrics(p, stats[p].winRate, stats[p].totalSignals, stats[p].totalCopiers,
                     stats[p].reputationScore, wallet)
        ELSE Metrics(p, 0, 0, 0, 0, wallet)

\* evaluateProvider: the metrics it builds from the stats row, zeros without
\* one, and always an empty wallet address
MetricsOfStats(p) ==
    IF p \in DOMAIN stats
    THEN Metrics(p, stats[p].winRate, stats[p].totalSignals, stats[p].totalCopiers,
                 stats[p].reputationScore, "")
    ELSE Metrics(p, 0, 0, 0, 0, "")

\* resolveTierForMetrics called on its own
ResolveTier(m) ==
    /\ lastResult' = Result("resolveTierForMetrics", m, "none",
                            [tierLevel |-> ResolveTierForMetrics(tierCache, m)])
    /\ UNCHANGED <<tiers, tierCache, assignments, payouts, now, stats, evals>>

\* A promotion also when the tier is unchanged (a mutant of WasPromoted)
WasPromoted_OrEqual(previousTier, newTier) ==
    previousTier # NoValue /\ TierIndex(newTier) >= TierIndex(previousTier)

\* wasPromoted: a previous tier exists and the new one has a higher index
WasPromoted(previousTier, newTier) ==
    previousTier # NoValue /\ TierIndex(newTier) > TierIndex(previousTier)

\* wasDemoted
WasDemoted(previousTier, newTier) ==
    previousTier # NoValue /\ TierIndex(newTier) < TierIndex(previousTier)

\* The promotion bonus only for a promotion by one rank (a mutant of BonusDue)
BonusDue_AdjacentOnly(cache, row, m, newTier) ==
    /\ row # Null
    /\ TierIndex(newTier) = TierIndex(row.currentTier) + 1
    /\ m.walletAddress # ""
    /\ CachedTier(cache, newTier) # Null
    /\ DecGt0(CachedTier(cache, newTier).performanceBonusUsdc)

\* evaluateProviderWithMetrics: when it issues the promotion bonus.  row is
\* the assignment findOne returned, Null for none
BonusDue(cache, row, m, newTier) ==
    /\ row # Null
    /\ WasPromoted(row.currentTier, newTier)
    /\ m.walletAddress # ""
    /\ CachedTier(cache, newTier) # Null
    /\ DecGt0(CachedTier(cache, newTier).performanceBonusUsdc)

\* The assignment saved with lastEvaluatedAt refreshed only when the tier
\* changes (a mutant of EvaluatedAssignment)
EvaluatedAssignment_FreshOnChange(cache, row, m, newTier, t) ==
    [providerId |-> m.providerId,
     currentTier |-> newTier,
     previousTier |-> IF row = Null THEN NoValue ELSE row.currentTier,
     promotionBonusPaid |-> (row # Null /\ row.promotionBonusPaid)
                               \/ BonusDue(cache, row, m, newTier),
     winRateSnapshot |-> m.winRate,
     signalsSnapshot |-> m.totalSignals,
     copiersSnapshot |-> m.totalCopiers,
     reputationSnapshot |-> m.reputationScore,
     lastEvaluatedAt |-> IF row # Null /\ row.currentTier = newTier
                         THEN row.lastEvaluatedAt ELSE t]

\* The assignment saved with promotionBonusPaid told by this evaluation
\* alone, the flag of the row forgotten (a mutant of EvaluatedAssignment)
EvaluatedAssignment_FlagReset(cache, row, m, newTier, t) ==
    [providerId |-> m.providerId,
     currentTier |-> newTier,
     previousTier |-> IF row = Null THEN NoValue ELSE row.currentTier,
     promotionBonusPaid |-> BonusDue(cache, row, m, newTier),
     winRateSnapshot |-> m.winRate,
     signalsSnapshot |-> m.totalSignals,
     copiersSnapshot |-> m.totalCopiers,
     reputationSnapshot |-> m.reputationScore,
     lastEvaluatedAt |-> t]

\* The assignment object evaluateProviderWithMetrics saves
EvaluatedAssignment(cache, row, m, newTier, t) ==
    LET base == IF row = Null
                THEN [providerId |-> m.providerId, currentTier |-> newTier,
                      previousTier |-> NoValue, promotionBonusPaid |-> FALSE]
                ELSE [providerId |-> row.providerId, currentTier |-> newTier,
                      previousTier |-> row.currentTier,
                      promotionBonusPaid |-> row.promotionBonusPaid]
    IN  [providerId |-> base.providerId,
         currentTier |-> base.currentTier,
         previousTier |-> base.previousTier,
         promotionBonusPaid |-> base.promotionBonusPaid \/ BonusDue(cache, row, m, newTier),
         winRateSnapshot |-> m.winRate,
         signalsSnapshot |-> m.totalSignals,
         copiersSnapshot |-> m.totalCopiers,
         reputationSnapshot |-> m.reputationScore,
         lastEvaluatedAt |-> t]

\* The payout evaluateProviderWithMetrics records when the bonus is due
PromotionPayoutParams(cache, m, newTier) ==
    BonusOnlyParams(m.providerId, newTier, CachedTier(cache, newTier).performanceBonusUsdc,
                    "PERFORMANCE", m.walletAddress, None, None)

\* The TierEvaluationResult it returns
EvaluationResult(cache, row, m, newTier) ==
    LET previousTier == IF row = Null THEN NoValue ELSE row.currentTier
        due == BonusDue(cache, row, m, newTier)
    IN  [providerId |-> m.providerId, previousTier |-> previousTier, newTier |-> newTier,
         promoted |-> WasPromoted(previousTier, newTier),
         demoted |-> WasDemoted(previousTier, newTier),
         bonusTriggered |-> due,
         bonusAmount |-> IF due THEN CachedTier(cache, newTier).performanceBonusUsdc ELSE Zero]

\* assignmentRepo.findOne({ where: { providerId } })
FindAssignment(store, p) == IF p \in DOMAIN store THEN store[p] ELSE Null

\* assignmentRepo.save(assignment)
SaveAssignment(store, row) ==
    [q \in DOMAIN store \cup {row.providerId} |-> IF q = row.providerId THEN row ELSE store[q]]

\* The ledger after an evaluation of m against the assignment row
PayoutsAfterEvaluation(cache, row, m, t) ==
    LET newTier == ResolveTierForMetrics(cache, m)
    IN  IF BonusDue(cache, row, m, newTier)
        THEN Append(payouts, NewPayout(PromotionPayoutParams(cache, m, newTier),
                                       Len(payouts) + 1, t))
        ELSE payouts

\* The assignments after an evaluation of m
AssignmentsAfterEvaluation(cache, m, t) ==
    LET row == FindAssignment(assignments, m.providerId)
    IN  SaveAssignment(assignments,
            EvaluatedAssignment(cache, row, m, ResolveTierForMetrics(cache, m), t))

\* evaluateProviderWithMetrics as one atomic call
EvaluateProviderWithMetrics(m) ==
    LET row == FindAssignment(assignments, m.providerId)
        newTier == ResolveTierForMetrics(tierCache, m)
    IN  /\ payouts' = PayoutsAfterEvaluation(tierCache, row, m, now)
        /\ assignments' = AssignmentsAfterEvaluation(tierCache, m, now)
        /\ lastResult' = Result("evaluateProviderWithMetrics", m,
                                "none", EvaluationResult(tierCache, row, m, newTier))
        /\ UNCHANGED <<tiers, tierCache, now, stats, evals>>

\* evaluateProvider: evaluateProviderWithMetrics on the stats row's metrics
EvaluateProvider(p) ==
    LET m == MetricsOfStats(p)
        row == FindAssignment(assignments, p)
    IN  /\ payouts' = PayoutsAfterEvaluation(tierCache, row, m, now)
        /\ assignments' = AssignmentsAfterEvaluation(tierCache, m, now)
        /\ lastResult' = Result("evaluateProvider", [providerId |-> p], "none",
               EvaluationResult(tierCache, row, m, ResolveTierForMetrics(tierCache, m)))
        /\ UNCHANGED <<tiers, tierCache, now, stats, evals>>

\* statsRepo.find(): the providers with a stats row, in the order of the rows
StatsProviders == SelectSeq(<<"p1", "p2", "p3">>, LAMBDA q : q \in DOMAIN stats)

\* The loop of evaluateAllProviders ending at the first failure (a mutant of
\* EvalAllAfterFailure)
EvalAllAfterFailure_Abort(rest) == <<>>

\* evaluateAllProviders: the catch block logs, and the loop goes on with the
\* providers that are left
EvalAllAfterFailure(rest) == rest

\* The loop of evaluateAllProviders over the providers ps.  failing holds the
\* providers for which a repository call of evaluateProvider rejects: the
\* evaluation of such a provider throws and saves nothing
RECURSIVE EvaluateAllFrom(_, _, _, _)
EvaluateAllFrom(ps, st, failing, t) ==
    IF ps = <<>> THEN st
    ELSE LET q == Head(ps)
             m == MetricsOfStats(q)
             row == FindAssignment(st.assignments, q)
             newTier == ResolveTierForMetrics(tierCache, m)
         IN  IF q \in failing
             THEN EvaluateAllFrom(EvalAllAfterFailure(Tail(ps)), st, failing, t)
             ELSE EvaluateAllFrom(Tail(ps),
                      [assignments |-> SaveAssignment(st.assignments,
                                           EvaluatedAssignment(tierCache, row, m, newTier, t)),
                       payouts |-> IF BonusDue(tierCache, row, m, newTier)
                                   THEN Append(st.payouts,
                                               NewPayout(PromotionPayoutParams(tierCache, m, newTier),
                                                         Len(st.payouts) + 1, t))
                                   ELSE st.payouts,
                       results |-> Append(st.results,
                                          EvaluationResult(tierCache, row, m, newTier))],
                      failing, t)

\* evaluateAllProviders: evaluateProvider for every stats row
EvaluateAllProviders(failing) ==
    LET st == EvaluateAllFrom(StatsProviders,
                              [assignments |-> assignments, payouts |-> payouts,
                               results |-> <<>>],
                              failing, now)
    IN  /\ assignments' = st.assignments
        /\ payouts' = st.payouts
        /\ lastResult' = Result("evaluateAllProviders", [failing |-> failing], "none",
                                [results |-> st.results])
        /\ UNCHANGED <<tiers, tierCache, now, stats, evals>>

----------------------------------------------------------------------------
(* Revenue share calculation and payout.                                   *)

\* The evaluation run on every call, an assignment or not (a mutant of
\* AssignmentsAfterCalculate)
AssignmentsAfterCalculate_Reevaluate(p, t) ==
    AssignmentsAfterEvaluation(tierCache, MetricsOfStats(p), t)

\* The assignments after calculateRevenueShare's get-or-create: a provider
\* without an assignment is evaluated first (evaluateProvider)
AssignmentsAfterCalculate(p, t) ==
    IF p \in DOMAIN assignments THEN assignments
    ELSE AssignmentsAfterEvaluation(tierCache, MetricsOfStats(p), t)

\* The ledger after calculateRevenueShare's get-or-create: the evaluation of
\* a provider without an assignment records what an evaluation records
PayoutsAfterCalculate(p, base, t) ==
    IF DecLte0(base) \/ p \in DOMAIN assignments THEN payouts
    ELSE PayoutsAfterEvaluation(tierCache, FindAssignment(assignments, p), MetricsOfStats(p), t)

\* revenueShareAmount computed without the division by 100 rounding to eight
\* digits: the quotient truncated (a mutant of RevenueShareAmount)
RevenueShareAmount_Truncated(base, pct) ==
    LET d == TimesDiv100(base, pct)
    IN  [d EXCEPT !.f = d.f - (d.f % 10)]

\* new Big(baseRevenue).times(new Big(sharePercentage)).div(100).toFixed(8)
RevenueShareAmount(base, pct) == ToFixed8(TimesDiv100(base, pct))

\* includeBonus && parseFloat(tierDef.monthlyRetentionBonusUsdc) > 0
BonusIncluded(tierDef, includeBonus) ==
    includeBonus /\ DecGt0(tierDef.monthlyRetentionBonusUsdc)

\* The RevenueShareCalculationDto of a provider at tierDef
Calculation(p, tierDef, base, includeBonus) ==
    LET share == RevenueShareAmount(base, tierDef.revenueSharePercentage)
        inc   == BonusIncluded(tierDef, includeBonus)
        bonus == IF inc THEN ToFixed8(tierDef.monthlyRetentionBonusUsdc) ELSE Zero
    IN  [providerId |-> p,
         tierLevel |-> tierDef.tierLevel,
         sharePercentage |-> tierDef.revenueSharePercentage,
         baseRevenue |-> base,
         revenueShareAmount |-> share,
         bonusAmount |-> bonus,
         bonusType |-> IF inc THEN "MONTHLY_TOP" ELSE NoValue,
         totalPayout |-> ToFixed8(DecPlus(share, bonus))]

\* calculateRevenueShare: the error it throws, "none" when it returns
CalculateError(p, base, t) ==
    IF DecLte0(base) THEN "InvalidArgument"
    ELSE IF AssignmentsAfterCalculate(p, t)[p].currentTier \notin DOMAIN tiers THEN "NotFound"
    ELSE "none"

\* calculateRevenueShare: what it returns
CalculateValue(p, base, includeBonus, t) ==
    Calculation(p, tiers[AssignmentsAfterCalculate(p, t)[p].currentTier], base, includeBonus)

CalculateRevenueShare(p, base, includeBonus) ==
    /\ assignments' = IF DecLte0(base) THEN assignments ELSE AssignmentsAfterCalculate(p, now)
    /\ lastResult' =
          IF CalculateError(p, base, now) # "none"
          THEN Result("calculateRevenueShare",
                      [providerId |-> p, baseRevenue |-> base, includeBonus |-> includeBonus],
                      CalculateError(p, base, now), Null)
          ELSE Result("calculateRevenueShare",
                      [providerId |-> p, baseRevenue |-> base, includeBonus |-> includeBonus], "none",
                      CalculateValue(p, base, includeBonus, now))
    /\ payouts' = PayoutsAfterCalculate(p, base, now)
    /\ UNCHANGED <<tiers, tierCache, now, stats, evals>>

NoOverride == [amount |-> Null, type |-> NoValue]

Options(includeBonus, year, month, override) ==
    [includeBonus |-> includeBonus, periodYear |-> year, periodMonth |-> month,
     bonusOverride |-> override]

\* const { includeBonus = true, ... } = options
IncludeBonusOf(options) == options.includeBonus # "false"

\* The total taken from the calculation, the override left out (a mutant of
\* PayoutTotal)
PayoutTotal_OfCalculation(calc, bonus) == calc.totalPayout

\* new Big(calc.revenueShareAmount).plus(new Big(bonusAmount)).toFixed(8)
PayoutTotal(calc, bonus) == ToFixed8(DecPlus(calc.revenueShareAmount, bonus))

\* processProviderPayout: the parameters it hands to recordPayout
PayoutParams(calc, options, wallet) ==
    LET over  == options.bonusOverride
        bonus == IF over.amount # Null THEN over.amount ELSE calc.bonusAmount
    IN  [providerId |-> calc.providerId,
         tierLevel |-> calc.tierLevel,
         baseRevenue |-> calc.baseRevenue,
         sharePercentage |-> calc.sharePercentage,
         revenueShareAmount |-> calc.revenueShareAmount,
         bonusAmount |-> bonus,
         bonusType |-> IF over.type # NoValue THEN over.type ELSE calc.bonusType,
         totalPayout |-> PayoutTotal(calc, bonus),
         providerWalletAddress |-> wallet,
         periodYear |-> options.periodYear,
         periodMonth |-> options.periodMonth]

\* Escalation for ELITE alone (a mutant of Escalates)
Escalates_EliteOnly(tierLevel) == tierLevel = "ELITE"

\* The tiers whose payouts processProviderPayout escalates
Escalates(tierLevel) == tierLevel = "ELITE" \/ tierLevel = "PLATINUM"

\* escalatePayout
EscalatedRow(row) == [row EXCEPT !.status = "PROCESSING"]

\* processProviderPayout: the error it throws, "none" when it returns
ProcessError(p, base, t) ==
    IF CalculateError(p, base, t) # "none" THEN CalculateError(p, base, t)
    ELSE IF ~UserFound(p) THEN "NotFound"
    ELSE "none"

\* processProviderPayout: the row in the ledger when it returns
ProcessedRow(p, base, options, id, t) ==
    LET calc == CalculateValue(p, base, IncludeBonusOf(options), t)
        row  == NewPayout(PayoutParams(calc, options, UserRepo[p].walletAddress), id, t)
    IN  IF Escalates(calc.tierLevel) THEN EscalatedRow(row) ELSE row

ProcessProviderPayout(p, base, options) ==
    /\ assignments' = IF DecLte0(base) THEN assignments ELSE AssignmentsAfterCalculate(p, now)
    /\ IF ProcessError(p, base, now) # "none"
       THEN /\ payouts' = payouts
            /\ lastResult' = Result("processProviderPayout", [providerId |-> p, baseRevenue |-> base],
                                    ProcessError(p, base, now), Null)
       ELSE /\ payouts' = Append(payouts,
                                 ProcessedRow(p, base, options, Len(payouts) + 1, now))
            /\ lastResult' = Result("processProviderPayout", [providerId |-> p, baseRevenue |-> base], "none",
                                    payouts'[Len(payouts')])
    /\ UNCHANGED <<tiers, tierCache, now, stats, evals>>

----------------------------------------------------------------------------
(* Monthly batch.                                                          *)

\* A base revenue string that new Big() rejects, such as "abc"
NaD == [nan |-> TRUE]

IsDecimal(s) == s # NaD

\* The options processMontlyBatch passes to processProviderPayout
BatchOptions(year, month) == Options("true", Some(year), Some(month), NoOverride)

\* calculateRevenueShare's get-or-create over the assignments in store: a
\* provider without an assignment is evaluated first (evaluateProvider)
CalcAssignmentsIn(store, p, t) ==
    IF p \in DOMAIN store THEN store
    ELSE SaveAssignment(store,
             EvaluatedAssignment(tierCache, Null, MetricsOfStats(p),
                                 ResolveTierForMetrics(tierCache, MetricsOfStats(p)), t))

\* processProviderPayout over the assignments in store: the error it throws
ProcessErrorIn(store, p, base, t) ==
    IF DecLte0(base) THEN "InvalidArgument"
    ELSE IF CalcAssignmentsIn(store, p, t)[p].currentTier \notin DOMAIN tiers THEN "NotFound"
    ELSE IF ~UserFound(p) THEN "NotFound"
    ELSE "none"

\* err.message of that error
ProcessMessageIn(store, p, base, t) ==
    IF DecLte0(base) THEN "Base revenue must be positive"
    ELSE IF CalcAssignmentsIn(store, p, t)[p].currentTier \notin DOMAIN tiers
    THEN "Tier definition not found"
    ELSE "Provider user not found"

\* processProviderPayout over the assignments in store: the assignments it
\* leaves, whether it throws or returns
AssignmentsAfterProcessIn(store, p, base, t) ==
    IF DecLte0(base) THEN store ELSE CalcAssignmentsIn(store, p, t)

\* processProviderPayout over the assignments in store: the row it records
ProcessedRowIn(store, p, base, options, id, t) ==
    LET calc == Calculation(p, tiers[CalcAssignmentsIn(store, p, t)[p].currentTier], base,
                            IncludeBonusOf(options))
        row  == NewPayout(PayoutParams(calc, options, UserRepo[p].walletAddress), id, t)
    IN  IF Escalates(calc.tierLevel) THEN EscalatedRow(row) ELSE row

\* processProviderPayout over the assignments in store: the PENDING row that
\* recordPayout stored when escalatePayout's save rejects
RecordedRowIn(store, p, base, options, id, t) ==
    [ProcessedRowIn(store, p, base, options, id, t) EXCEPT !.status = "PENDING"]

\* processProviderPayout over the assignments in store throws after it
\* recorded the payout: the provider's tier is escalated and p is one of
\* failing, the providers for which payoutRepo.save of escalatePayout rejects
EscalationFails(store, p, t, failing) ==
    p \in failing /\ Escalates(CalcAssignmentsIn(store, p, t)[p].currentTier)

\* The batch skipping negative amounts only (a mutant of BatchSkips)
BatchSkips_NegativeOnly(base) == base.neg

\* new Big(baseRevenue).lte(0)
BatchSkips(base) == DecLte0(base)

\* One entry of MonthlyBatchResult.details
BatchDetail(p, status, amount, reason) ==
    [providerId |-> p, status |-> status, amount |-> amount, reason |-> reason]

\* The result object and the running total before the loop
BatchStart(store, ledger) ==
    [assignments |-> store, payouts |-> ledger, total |-> Zero, error |-> "none",
     processed |-> 0, successfulPayouts |-> 0, failedPayouts |-> 0, skipped |-> 0,
     details |-> <<>>]

\* The loop of processMontlyBatch from the k-th entry of the revenue map on.
\* new Big(baseRevenue) of the skip test is outside the try block: on a
\* string it rejects, the call ends there with the error of big.js
RECURSIVE BatchFrom(_, _, _, _, _, _, _)
BatchFrom(entries, k, st, year, month, t, failing) ==
    IF k > Len(entries) THEN st
    ELSE LET p    == entries[k][1]
             base == entries[k][2]
             in   == [st EXCEPT !.processed = @ + 1]
         IN  IF ~IsDecimal(base) THEN [in EXCEPT !.error = "Error"]
             ELSE IF BatchSkips(base)
             THEN BatchFrom(entries, k + 1,
                      [in EXCEPT !.skipped = @ + 1,
                                 !.details = Append(@, BatchDetail(p, "skipped", Zero, "Zero revenue"))],
                      year, month, t, failing)
             ELSE IF ProcessErrorIn(st.assignments, p, base, t) # "none"
             THEN BatchFrom(entries, k + 1,
                      [in EXCEPT !.assignments = AssignmentsAfterProcessIn(st.assignments, p, base, t),
                                 !.failedPayouts = @ + 1,
                                 !.details = Append(@, BatchDetail(p, "failed", Zero,
                                                 ProcessMessageIn(st.assignments, p, base, t)))],
                      year, month, t, failing)
             ELSE IF EscalationFails(st.assignments, p, t, failing)
             THEN BatchFrom(entries, k + 1,
                      [in EXCEPT !.assignments = AssignmentsAfterProcessIn(st.assignments, p, base, t),
                                 !.payouts = Append(@, RecordedRowIn(st.assignments, p, base,
                                                           BatchOptions(year, month),
                                                           Len(st.payouts) + 1, t)),
                                 !.failedPayouts = @ + 1,
                                 !.details = Append(@, BatchDetail(p, "failed", Zero,
                                                                   "save rejected"))],
                      year, month, t, failing)
             ELSE LET row == ProcessedRowIn(st.assignments, p, base, BatchOptions(year, month),
                                            Len(st.payouts) + 1, t)
                  IN  BatchFrom(entries, k + 1,
                          [in EXCEPT !.assignments = AssignmentsAfterProcessIn(st.assignments, p, base, t),
                                     !.payouts = Append(@, row),
                                     !.total = DecPlus(@, row.totalPayout),
                                     !.successfulPayouts = @ + 1,
                                     !.details = Append(@, BatchDetail(p, "success", row.totalPayout,
                                                                       NoValue))],
                          year, month, t, failing)

\* The MonthlyBatchResult returned after the loop
BatchResult(st) ==
    [processed |-> st.processed, totalDispatched |-> ToFixed8(st.total),
     successfulPayouts |-> st.successfulPayouts, failedPayouts |-> st.failedPayouts,
     skipped |-> st.skipped, details |-> st.details]

\* processMontlyBatch over the entries of the revenue map in insertion
\* order, payoutRepo.save of escalatePayout rejecting for the providers of
\* failing
ProcessMontlyBatchFailing(year, month, entries, failing) ==
    LET st  == BatchFrom(entries, 1, BatchStart(assignments, payouts), year, month, now,
                         failing)
        key == [year |-> year, month |-> month, revenueMap |-> entries]
    IN  /\ assignments' = st.assignments
        /\ payouts' = st.payouts
        /\ lastResult' = IF st.error # "none"
                         THEN Result("processMontlyBatch", key, st.error, Null)
                         ELSE Result("processMontlyBatch", key, "none", BatchResult(st))
        /\ UNCHANGED <<tiers, tierCache, now, stats, evals>>

\* processMontlyBatch with every repository call succeeding
ProcessMontlyBatch(year, month, entries) == ProcessMontlyBatchFailing(year, month, entries, {})

----------------------------------------------------------------------------
(* Retention bonus round and tier configuration.                           *)

\* The order in which assignmentRepo.find returns the rows of the providers
ProviderOrder == <<"p1", "p2", "p3">>

\* parseFloat(tierDef.monthlyRetentionBonusUsdc) === 0
DecIsZero(d) == d.w = 0 /\ d.f = 0

\* runRetentionBonusRound: the providers of one top tier it credits
RetentionProviders(tier) ==
    IF tier \notin DOMAIN tiers \/ DecIsZero(tiers[tier].monthlyRetentionBonusUsdc)
    THEN <<>>
    ELSE SelectSeq(ProviderOrder,
                   LAMBDA q : /\ q \in DOMAIN assignments
                              /\ assignments[q].currentTier = tier
                              /\ UserFound(q))

\* The payout runRetentionBonusRound records for provider q of a top tier
RetentionParams(q, tier, year, month) ==
    BonusOnlyParams(q, tier, tiers[tier].monthlyRetentionBonusUsdc, "MONTHLY_TOP",
                    UserRepo[q].walletAddress, Some(year), Some(month))

RECURSIVE RecordRetention(_, _, _, _, _, _)
\* recordPayout for each provider of ps in turn
RecordRetention(ledger, ps, tier, year, month, t) ==
    IF ps = <<>> THEN ledger
    ELSE RecordRetention(
             Append(ledger, NewPayout(RetentionParams(Head(ps), tier, year, month),
                                      Len(ledger) + 1, t)),
             Tail(ps), tier, year, month, t)

RECURSIVE SumBonus(_, _)
\* totalBonus: the tier's bonus added once for each credited provider
SumBonus(n, amount) == IF n = 0 THEN Zero ELSE DecPlus(SumBonus(n - 1, amount), amount)

\* runRetentionBonusRound: ELITE first, then PLATINUM
RunRetentionBonusRound(year, month) ==
    LET elite    == RetentionProviders("ELITE")
        platinum == RetentionProviders("PLATINUM")
        total    == DecPlus(
                      IF elite = <<>> THEN Zero
                      ELSE SumBonus(Len(elite), tiers["ELITE"].monthlyRetentionBonusUsdc),
                      IF platinum = <<>> THEN Zero
                      ELSE SumBonus(Len(platinum), tiers["PLATINUM"].monthlyRetentionBonusUsdc))
    IN  /\ payouts' = RecordRetention(
                          RecordRetention(payouts, elite, "ELITE", year, month, now),
                          platinum, "PLATINUM", year, month, now)
        /\ lastResult' = Result("runRetentionBonusRound", [year |-> year, month |-> month], "none",
                                [credited |-> Len(elite) + Len(platinum),
                                 totalBonusUsdc |-> ToFixed8(total)])
        /\ UNCHANGED <<tiers, tierCache, assignments, now, stats, evals>>

\* Object.assign(tier, updates)
AssignFields(tier, updates) ==
    [k \in DOMAIN tier |-> IF k \in DOMAIN updates THEN updates[k] ELSE tier[k]]

\* The order of the DEFAULT_TIERS array, which seedDefaultTiers walks
DefaultTierOrder == <<"BRONZE", "SILVER", "GOLD", "PLATINUM", "ELITE">>

\* Seeding that finds no row (a mutant of SeedExists)
SeedExists_Never(store, level) == FALSE

\* seedDefaultTiers: tierRepo.findOne({ where: { tierLevel } }) found a row
SeedExists(store, level) == level \in DOMAIN store

\* tierRepo.save(tierRepo.create(tier)) on the store keyed by tierLevel
SaveTier(store, row) ==
    [l \in DOMAIN store \cup {row.tierLevel} |->
        IF l = row.tierLevel THEN row ELSE store[l]]

\* seedDefaultTiers from the k-th default tier on: the store it leaves
RECURSIVE SeedFrom(_, _)
SeedFrom(store, k) ==
    IF k > Len(DefaultTierOrder) THEN store
    ELSE LET level == DefaultTierOrder[k]
         IN  IF SeedExists(store, level)
             THEN SeedFrom(store, k + 1)
             ELSE SeedFrom(SaveTier(store, DEFAULT_TIERS[level]), k + 1)

\* seedDefaultTiers from the k-th default tier on: the levels it saved, one
\* for each "Seeded tier" log line
RECURSIVE SeededFrom(_, _)
SeededFrom(store, k) ==
    IF k > Len(DefaultTierOrder) THEN <<>>
    ELSE LET level == DefaultTierOrder[k]
         IN  IF SeedExists(store, level)
             THEN SeededFrom(store, k + 1)
             ELSE <<level>> \o SeededFrom(SaveTier(store, DEFAULT_TIERS[level]), k + 1)

SeedDefaultTiers(store) == SeedFrom(store, 1)

\* onModuleInit: seedDefaultTiers, then refreshTierCache
OnModuleInit ==
    /\ tiers' = SeedDefaultTiers(tiers)
    /\ tierCache' = ActiveTiersSorted(tiers')
    /\ lastResult' = Result("onModuleInit", Null, "none", [seeded |-> SeededFrom(tiers, 1)])
    /\ UNCHANGED <<assignments, payouts, now, stats, evals>>

\* updateTierConfig: save the changed row, then refreshTierCache
UpdateTierConfig(level, updates) ==
    /\ IF level \notin DOMAIN tiers
       THEN /\ lastResult' = Result("updateTierConfig", [tierLevel |-> level], "Error", Null)
            /\ UNCHANGED <<tiers, tierCache>>
       ELSE /\ tiers' = [tiers EXCEPT ![level] = AssignFields(tiers[level], updates)]
            /\ tierCache' = ActiveTiersSorted(tiers')
            /\ lastResult' = Result("updateTierConfig", [tierLevel |-> level], "none", tiers'[level])
    /\ UNCHANGED <<assignments, payouts, now, stats, evals>>

----------------------------------------------------------------------------
(* The state after onModuleInit: the five default tiers seeded and cached, *)
(* no assignment, no payout.                                               *)

\* The slots of evaluation calls, and a slot with no call in flight
EvalIds == 1 .. MaxConcurrent

IdleEval == [pc |-> "idle", m |-> Null, newTier |-> NoValue, row |-> Null, at |-> 0]

StatsRow(winRate, signals, copiers, reputation, streak) ==
    [winRate |-> winRate, totalSignals |-> signals, totalCopiers |-> copiers,
     reputationScore |-> reputation, streakWins |-> streak]

\* The stats the signals module holds at start-up: p1 at ELITE's thresholds,
\* p2 at SILVER's, p3 without a stats row
DefaultStats ==
    [p \in {"p1", "p2"} |->
        IF p = "p1" THEN StatsRow(75, 200, 300, 85, 10) ELSE StatsRow(55, 20, 10, 55, 0)]

Init ==
    /\ tiers = DEFAULT_TIERS
    /\ tierCache = ActiveTiersSorted(DEFAULT_TIERS)
    /\ assignments = <<>>
    /\ payouts = <<>>
    /\ now = 0
    /\ stats = DefaultStats
    /\ lastResult = Result("onModuleInit", Null, "none", Null)
    /\ evals = [e \in EvalIds |-> IdleEval]
    /\ retries = <<>>

\* The history variable after a service call: one more for the payout that
\* a retryFailedPayout has just returned to PENDING
TrackRetries ==
    retries' = [i \in 1..Len(payouts') |->
                   (IF i <= Len(retries) THEN retries[i] ELSE 0)
                   + (IF /\ lastResult'.op = "retryFailedPayout"
                         /\ lastResult'.error = "none"
                         /\ lastResult'.key.payoutId = i
                      THEN 1 ELSE 0)]

----------------------------------------------------------------------------
(* SpecLedger: the payout lifecycle.  Payouts enter through                *)
(* awardPerformanceBonus (PENDING) and through processProviderPayout of    *)
(* the ELITE provider p1 (PROCESSING); the dispatcher confirms, fails and  *)
(* retries them.                                                           *)

TxHashes == {"tx1", "tx2"}

LedgerAward ==
    /\ Len(payouts) < MaxPayouts
    /\ AwardPerformanceBonus("p1", Dec(25, 0), "STREAK")
    /\ TrackRetries

LedgerProcess ==
    /\ Len(payouts) < MaxPayouts
    /\ ProcessProviderPayout("p1", Dec(1000, 0), Options("true", Some(2026), Some(1), NoOverride))
    /\ TrackRetries

LedgerConfirm ==
    /\ \E id \in 1..(Len(payouts) + 1) : ConfirmPayout(id, "tx1")
    /\ TrackRetries

LedgerFail ==
    \E id \in 1..(Len(payouts) + 1) :
        /\ id \in PayoutIds => payouts[id].retryCount < MaxRetryCount
        /\ MarkPayoutFailed(id, "rejected")
        /\ TrackRetries

LedgerRetry ==
    /\ \E id \in 1..(Len(payouts) + 1) : RetryFailedPayout(id)
    /\ TrackRetries

NextLedger == LedgerAward \/ LedgerProcess \/ LedgerConfirm \/ LedgerFail \/ LedgerRetry

SpecLedger == Init /\ [][NextLedger]_vars

----------------------------------------------------------------------------
(* SpecConfirm: confirmation against a moving clock.  The dispatcher       *)
(* confirms, fails and retries payouts while time passes.                  *)

MaxClock == 1            \* ticks of the clock in SpecConfirm

MaxFailures == 1         \* markPayoutFailed calls per payout in SpecConfirm

ClockAward ==
    /\ Len(payouts) < MaxPayouts
    /\ AwardPerformanceBonus("p1", Dec(25, 0), "STREAK")
    /\ TrackRetries

ClockConfirm ==
    /\ \E id \in 1..(Len(payouts) + 1), h \in TxHashes : ConfirmPayout(id, h)
    /\ TrackRetries

ClockFail ==
    \E id \in PayoutIds :
        /\ payouts[id].retryCount < MaxFailures
        /\ MarkPayoutFailed(id, "rejected")
        /\ TrackRetries

ClockRetry == (\E id \in PayoutIds : RetryFailedPayout(id)) /\ TrackRetries

ClockTick == now < MaxClock /\ Tick /\ UNCHANGED retries

NextConfirm == ClockAward \/ ClockConfirm \/ ClockFail \/ ClockRetry \/ ClockTick

SpecConfirm == Init /\ [][NextConfirm]_vars

----------------------------------------------------------------------------
(* SpecEval: evaluations of provider p1 against changing metrics, with and *)
(* without a wallet address, while the admin switches SILVER's promotion   *)
(* bonus off and on.                                                       *)

\* Metrics exactly at the thresholds of a default tier
MetricsAt(p, level, wallet) ==
    Metrics(p, DEFAULT_TIERS[level].minWinRate, DEFAULT_TIERS[level].minSignals,
            DEFAULT_TIERS[level].minCopiers, DEFAULT_TIERS[level].minReputationScore, wallet)

EvalInputs ==
    {MetricsAt("p1", level, wallet) :
        level \in {"BRONZE", "SILVER", "GOLD", "ELITE"}, wallet \in {"GW1", ""}}

EvalEvaluate ==
    /\ Len(payouts) < MaxEvalPayouts
    /\ \E m \in EvalInputs : EvaluateProviderWithMetrics(m)
    /\ TrackRetries

EvalUpdateTier ==
    /\ \E bonus \in {Zero, Dec(10, 0)} :
          UpdateTierConfig("SILVER", [performanceBonusUsdc |-> bonus])
    /\ TrackRetries

NextEval == EvalEvaluate \/ EvalUpdateTier

SpecEval == Init /\ [][NextEval]_vars

----------------------------------------------------------------------------
(* SpecConc: evaluateProviderWithMetrics calls of provider p1 in flight at *)
(* the same time.  A call gives up control at each await: findOne, the     *)
(* save inside recordPayout, and assignmentRepo.save.  The provider's      *)
(* metrics only improve, and the evaluation that creates the assignment    *)
(* runs on its own (what two concurrent inserts do depends on the          *)
(* assignment table's constraints).                                        *)

ConcInputs == {MetricsAt("p1", level, "GW1") : level \in {"BRONZE", "SILVER", "GOLD"}}

\* The call starts: resolveTierForMetrics runs, findOne is issued
ConcCall(e, m) ==
    LET newTier == ResolveTierForMetrics(tierCache, m)
        others == {x \in EvalIds \ {e} : evals[x].pc # "idle"}
    IN  /\ evals[e].pc = "idle"
        /\ Len(payouts) + Cardinality(others) < MaxConcPayouts
        /\ m.providerId \in DOMAIN assignments \/ others = {}
        /\ m.providerId \in DOMAIN assignments
              => TierIndex(newTier) >= TierIndex(assignments[m.providerId].currentTier)
        /\ \A x \in others : TierIndex(newTier) >= TierIndex(evals[x].newTier)
        /\ evals' = [evals EXCEPT ![e] = [pc |-> "finding", m |-> m, newTier |-> newTier,
                                          row |-> Null, at |-> 0]]
        /\ UNCHANGED <<tiers, tierCache, assignments, payouts, now, stats, lastResult>>

\* findOne resolves; the call runs up to its next await
ConcFound(e) ==
    LET row == FindAssignment(assignments, evals[e].m.providerId)
        due == BonusDue(tierCache, row, evals[e].m, evals[e].newTier)
    IN  /\ evals[e].pc = "finding"
        /\ evals' = [evals EXCEPT ![e].pc = IF due THEN "recording" ELSE "saving",
                                  ![e].row = row, ![e].at = now]
        /\ UNCHANGED <<tiers, tierCache, assignments, payouts, now, stats, lastResult>>

\* recordPayout stores the promotion payout
ConcRecorded(e) ==
    /\ evals[e].pc = "recording"
    /\ payouts' = Append(payouts,
                         NewPayout(PromotionPayoutParams(tierCache, evals[e].m, evals[e].newTier),
                                   Len(payouts) + 1, now))
    /\ evals' = [evals EXCEPT ![e].pc = "saving"]
    /\ UNCHANGED <<tiers, tierCache, assignments, now, stats, lastResult>>

\* assignmentRepo.save stores the assignment; the call returns
ConcSaved(e) ==
    LET c == evals[e]
    IN  /\ c.pc = "saving"
        /\ assignments' = SaveAssignment(assignments,
                              EvaluatedAssignment(tierCache, c.row, c.m, c.newTier, c.at))
        /\ lastResult' = Result("evaluateProviderWithMetrics", c.m, "none",
                                EvaluationResult(tierCache, c.row, c.m, c.newTier))
        /\ evals' = [evals EXCEPT ![e] = IdleEval]
        /\ UNCHANGED <<tiers, tierCache, payouts, now, stats>>

ConcStart == \E e \in EvalIds, m \in ConcInputs : ConcCall(e, m) /\ TrackRetries

ConcFind == \E e \in EvalIds : ConcFound(e) /\ TrackRetries

ConcRecord == \E e \in EvalIds : ConcRecorded(e) /\ TrackRetries

ConcSave == \E e \in EvalIds : ConcSaved(e) /\ TrackRetries

NextConc == ConcStart \/ ConcFind \/ ConcRecord \/ ConcSave

SpecConc == Init /\ [][NextConc]_vars

----------------------------------------------------------------------------
(* SpecCalc: calculateRevenueShare for providers at every tier, while the  *)
(* admin edits GOLD's retention bonus and SILVER's percentage.  p1 is      *)
(* placed by evaluations without a wallet address; p3 has no stats row and *)
(* is placed at BRONZE by its first calculation.                           *)

CalcBases == {Dec(1000, 0), Dec(33, 333333330), Dec(0, 130), Dec(0, 120), Zero, DecNeg(5, 0)}

CalcUpdates ==
    {<<"GOLD", [monthlyRetentionBonusUsdc |-> Zero]>>,
     <<"GOLD", [monthlyRetentionBonusUsdc |-> Dec(0, 5)]>>,
     <<"GOLD", [monthlyRetentionBonusUsdc |-> Dec(20, 0)]>>,
     <<"SILVER", [revenueSharePercentage |-> Dec(6, 250000000)]>>,
     <<"SILVER", [revenueSharePercentage |-> Dec(6, 0)]>>}

CalcEvaluate ==
    /\ \E level \in TierLevels : EvaluateProviderWithMetrics(MetricsAt("p1", level, ""))
    /\ TrackRetries

CalcEvaluateStats ==
    /\ \E p \in {"p1", "p2"} : EvaluateProvider(p)
    /\ TrackRetries

CalcUpdateTier ==
    /\ \E u \in CalcUpdates : UpdateTierConfig(u[1], u[2])
    /\ TrackRetries

CalcCalculate ==
    /\ \E p \in {"p1", "p3"}, base \in CalcBases, includeBonus \in BOOLEAN :
          CalculateRevenueShare(p, base, includeBonus)
    /\ TrackRetries

\* processProviderPayout with a base revenue that is not positive
CalcProcessInvalid ==
    /\ \E p \in {"p1", "p3"}, base \in {Zero, DecNeg(5, 0)} :
          ProcessProviderPayout(p, base, Options(NoValue, None, None, NoOverride))
    /\ TrackRetries

NextCalc ==
    \/ CalcEvaluate
    \/ CalcEvaluateStats
    \/ CalcUpdateTier
    \/ CalcCalculate
    \/ CalcProcessInvalid

SpecCalc == Init /\ [][NextCalc]_vars

----------------------------------------------------------------------------
(* Spec: every operation that writes the ledger.  Payouts are created by   *)
(* processProviderPayout (with and without a bonus override),              *)
(* awardPerformanceBonus, the promotion bonus of an evaluation and the     *)
(* retention round; the dispatcher confirms, fails and retries them.       *)

\* A bonus override whose amount has a ninth fractional digit
FineOverride == [amount |-> Dec(0, 5), type |-> "PERFORMANCE"]

ProcessOptions ==
    {Options(NoValue, None, None, NoOverride),
     Options("false", Some(2026), Some(1), NoOverride),
     Options("true", Some(2026), Some(1), FineOverride)}

SpecEvaluate ==
    /\ Len(payouts) < MaxPayouts
    /\ \E level \in {"BRONZE", "ELITE"} :
          EvaluateProviderWithMetrics(MetricsAt("p1", level, "GW1"))
    /\ TrackRetries

SpecProcess ==
    /\ Len(payouts) < MaxPayouts
    /\ \E p \in {"p1", "p3"}, options \in ProcessOptions :
          ProcessProviderPayout(p, Dec(1000, 0), options)
    /\ TrackRetries

SpecAward ==
    /\ Len(payouts) < MaxPayouts
    /\ AwardPerformanceBonus("p1", Dec(25, 0), "STREAK")
    /\ TrackRetries

SpecRetention ==
    /\ Len(payouts) < MaxPayouts
    /\ RunRetentionBonusRound(2026, 1)
    /\ TrackRetries

SpecConfirmPayout ==
    /\ \E id \in PayoutIds : ConfirmPayout(id, "tx1")
    /\ TrackRetries

SpecFail ==
    \E id \in PayoutIds :
        /\ payouts[id].retryCount < MaxFailures
        /\ MarkPayoutFailed(id, "rejected")
        /\ TrackRetries

SpecRetry ==
    /\ \E id \in PayoutIds : RetryFailedPayout(id)
    /\ TrackRetries

Next ==
    \/ SpecEvaluate
    \/ SpecProcess
    \/ SpecAward
    \/ SpecRetention
    \/ SpecConfirmPayout
    \/ SpecFail
    \/ SpecRetry

Spec == Init /\ [][Next]_vars

----------------------------------------------------------------------------
(* SpecPayout: processProviderPayout for providers at every tier and with  *)
(* every kind of user record, with positive, zero and negative base        *)
(* revenue.  p1 is placed by evaluations without a wallet address, p2 (a   *)
(* user without a wallet address) and p3 (no user record) by their first   *)
(* calculation, which finds p1's stats at ELITE and p2's at SILVER; the     *)
(* dispatcher confirms and fails the payouts.                              *)

PayoutBases == {Dec(1000, 0), Zero, DecNeg(5, 0)}

PayEvaluate ==
    /\ \E level \in {"BRONZE", "GOLD", "PLATINUM"} :
          EvaluateProviderWithMetrics(MetricsAt("p1", level, ""))
    /\ TrackRetries

PayProcess ==
    /\ Len(payouts) < MaxPayouts
    /\ \E p \in Providers, base \in PayoutBases :
          ProcessProviderPayout(p, base, Options(NoValue, None, None, NoOverride))
    /\ TrackRetries

PayConfirm ==
    /\ \E id \in PayoutIds : ConfirmPayout(id, "tx1")
    /\ TrackRetries

PayFail ==
    \E id \in PayoutIds :
        /\ payouts[id].retryCount < MaxFailures
        /\ MarkPayoutFailed(id, "rejected")
        /\ TrackRetries

\* A retry asked for a payout that is still pending
PayRetry ==
    /\ \E id \in {i \in PayoutIds : payouts[i].status = "PENDING"} : RetryFailedPayout(id)
    /\ TrackRetries

NextPayout == PayEvaluate \/ PayProcess \/ PayConfirm \/ PayFail \/ PayRetry

SpecPayout == Init /\ [][NextPayout]_vars

----------------------------------------------------------------------------
(* SpecCatalog: the tier catalog under the admin's updateTierConfig calls  *)
(* (tiers switched off and on, SILVER's thresholds lowered to zero, raised *)
(* above GOLD's and restored, a level that has no row), with               *)
(* resolveTierForMetrics called on the cache and p3, which has no stats    *)
(* row, evaluated.                                                         *)

\* updates carries fields of updateTierConfig's parameter type: the
\* percentage, minWinRate, minSignals, minCopiers, the two bonuses, isActive
CatalogUpdates ==
    {<<"BRONZE", [isActive |-> FALSE]>>,
     <<"BRONZE", [isActive |-> TRUE]>>,
     <<"ELITE", [isActive |-> FALSE]>>,
     <<"ELITE", [isActive |-> TRUE]>>,
     <<"SILVER", [minWinRate |-> 0, minSignals |-> 0, minCopiers |-> 0]>>,
     <<"SILVER", [minWinRate |-> 99]>>,
     <<"SILVER", [minWinRate |-> 55, minSignals |-> 20, minCopiers |-> 10]>>,
     <<"DIAMOND", [isActive |-> FALSE]>>}

CatalogMetrics ==
    {Metrics("p1", 0, 0, 0, 0, ""),
     MetricsAt("p1", "SILVER", ""),
     MetricsAt("p1", "ELITE", ""),
     Metrics("p1", 99, 0, 0, 60, ""),
     Metrics("p1", 70, 500, 500, 100, ""),
     Metrics("p1", 74, 200, 300, 85, "")}

CatalogUpdate ==
    /\ \E u \in CatalogUpdates : UpdateTierConfig(u[1], u[2])
    /\ TrackRetries

CatalogResolve ==
    /\ \E m \in CatalogMetrics : ResolveTier(m)
    /\ TrackRetries

CatalogEvaluate ==
    /\ EvaluateProvider("p3")
    /\ TrackRetries

NextCatalog == CatalogUpdate \/ CatalogResolve \/ CatalogEvaluate

SpecCatalog == Init /\ [][NextCatalog]_vars

----------------------------------------------------------------------------
(* SpecSeed: the service from its construction over an empty tier table:   *)
(* onModuleInit at the first start and at every restart, and tier updates  *)
(* in between.  Requests are served only once onModuleInit has returned.   *)

\* The state after the constructor: no tier row, and tierCache = []
Constructed ==
    /\ tiers = <<>>
    /\ tierCache = <<>>
    /\ assignments = <<>>
    /\ payouts = <<>>
    /\ now = 0
    /\ stats = DefaultStats
    /\ lastResult = Result("constructor", Null, "none", Null)
    /\ evals = [e \in EvalIds |-> IdleEval]
    /\ retries = <<>>

SeedStart ==
    /\ OnModuleInit
    /\ TrackRetries

SeedUpdate ==
    /\ lastResult.op # "constructor"
    /\ \E u \in CatalogUpdates : UpdateTierConfig(u[1], u[2])
    /\ TrackRetries

SeedResolve ==
    /\ lastResult.op # "constructor"
    /\ \E m \in CatalogMetrics : ResolveTier(m)
    /\ TrackRetries

NextSeed == SeedStart \/ SeedUpdate \/ SeedResolve

SpecSeed == Constructed /\ [][NextSeed]_vars

----------------------------------------------------------------------------
(* SpecBatch: the monthly batch over revenue maps that hold a zero, a      *)
(* negative and a malformed amount, a provider without a user record, and  *)
(* providers of several tiers; the same map may be run again.              *)

\* Revenue maps, each a sequence of <<providerId, baseRevenue>> in the
\* insertion order of the Map
BatchMaps ==
    {<< <<"p1", Dec(1000, 0)>>, <<"p2", Zero>> >>,
     << <<"p3", Dec(1000, 0)>>, <<"p1", Dec(1000, 0)>> >>,
     << <<"p2", Dec(33, 333333330)>>, <<"p1", DecNeg(5, 0)>> >>,
     << <<"p2", NaD>>, <<"p1", Dec(1000, 0)>> >>,
     << <<"p1", Dec(1000, 0)>>, <<"p2", NaD>> >>,
     << >>}

BatchEvaluate ==
    /\ \E level \in {"BRONZE", "GOLD"} :
          EvaluateProviderWithMetrics(MetricsAt("p1", level, ""))
    /\ TrackRetries

BatchRun ==
    /\ \E entries \in BatchMaps :
          /\ Len(payouts) + Len(entries) <= MaxBatchPayouts
          /\ ProcessMontlyBatch(2026, 1, entries)
    /\ TrackRetries

NextBatch == BatchEvaluate \/ BatchRun

SpecBatch == Init /\ [][NextBatch]_vars

----------------------------------------------------------------------------
(* SpecEvalAll: evaluateAllProviders over the stats rows of p1 and p2,     *)
(* with repository failures for any of them, between evaluations of p1 at  *)
(* other tiers and changes of SILVER's win-rate minimum.                   *)

EvalAllRun ==
    /\ \E failing \in SUBSET {"p1", "p2"} : EvaluateAllProviders(failing)
    /\ TrackRetries

EvalAllEvaluate ==
    /\ \E level \in {"BRONZE", "GOLD"} :
          EvaluateProviderWithMetrics(MetricsAt("p1", level, ""))
    /\ TrackRetries

EvalAllUpdateTier ==
    /\ \E w \in {55, 99} : UpdateTierConfig("SILVER", [minWinRate |-> w])
    /\ TrackRetries

NextEvalAll == EvalAllRun \/ EvalAllEvaluate \/ EvalAllUpdateTier

SpecEvalAll == Init /\ [][NextEvalAll]_vars

----------------------------------------------------------------------------
(* SpecStreak: win-streak checks for p1, p2 and p3 while the signals       *)
(* module changes the streaks of p1 and p2 and the clock runs from one     *)
(* month into the next.                                                    *)

\* Streaks below, at and between the thresholds and at their multiples
StreakValues == {0, 4, 5, 7, 10, 15, 20, 30, 40}

StreakSet ==
    /\ \/ \E n \in StreakValues : SetStreak("p1", n)
       \/ \E n \in {0, 5} : SetStreak("p2", n)
    /\ TrackRetries

StreakCheck ==
    /\ Len(payouts) < MaxStreakPayouts
    /\ \E p \in Providers : CheckAndIssueStreakBonus(p)
    /\ TrackRetries

StreakTick == now < MaxStreakClock /\ Tick /\ UNCHANGED retries

NextStreak == StreakSet \/ StreakCheck \/ StreakTick

SpecStreak == Init /\ [][NextStreak]_vars

----------------------------------------------------------------------------
(* SpecRetain: retention bonus rounds over providers with and without a    *)
(* user record, evaluated to GOLD, PLATINUM and ELITE, while the retention *)
(* bonus of ELITE is set to zero, to a positive and to a negative amount.  *)

RetainEvaluate ==
    /\ \E p \in {"p1", "p3"}, level \in {"GOLD", "PLATINUM", "ELITE"} :
          EvaluateProviderWithMetrics(MetricsAt(p, level, ""))
    /\ TrackRetries

RetainUpdateTier ==
    /\ \E amount \in {Zero, Dec(100, 0), DecNeg(5, 0)} :
          UpdateTierConfig("ELITE", [monthlyRetentionBonusUsdc |-> amount])
    /\ TrackRetries

RetainRun ==
    /\ Len(payouts) < MaxRetainPayouts
    /\ RunRetentionBonusRound(2026, 1)
    /\ TrackRetries

NextRetain == RetainEvaluate \/ RetainUpdateTier \/ RetainRun

SpecRetain == Init /\ [][NextRetain]_vars

----------------------------------------------------------------------------
(* SpecRecord: every operation that records a payout (recordPayout itself, *)
(* processProviderPayout, the monthly batch, awardPerformanceBonus, the    *)
(* streak check, the retention round and a promotion), with and without a  *)
(* period supplied, while the clock runs from one month into the next.     *)

RecordParams ==
    {BonusOnlyParams("p1", "GOLD", Dec(25, 0), "PERFORMANCE", "GW1", None, None),
     BonusOnlyParams("p1", "GOLD", Dec(25, 0), "PERFORMANCE", "GW1", Some(2025), Some(12))}

RecRecord ==
    /\ Len(payouts) < MaxRecordPayouts
    /\ \E params \in RecordParams : RecordPayout(params)
    /\ TrackRetries

RecProcess ==
    /\ Len(payouts) < MaxRecordPayouts
    /\ \E p \in {"p1", "p2"},
          options \in {Options(NoValue, None, None, NoOverride),
                       Options(NoValue, Some(2025), Some(12), NoOverride)} :
          ProcessProviderPayout(p, Dec(1000, 0), options)
    /\ TrackRetries

RecBatch ==
    /\ Len(payouts) < MaxRecordPayouts
    /\ ProcessMontlyBatch(2025, 12, << <<"p1", Dec(1000, 0)>>, <<"p2", Zero>> >>)
    /\ TrackRetries

RecAward ==
    /\ Len(payouts) < MaxRecordPayouts
    /\ AwardPerformanceBonus("p1", Dec(25, 0), "PERFORMANCE")
    /\ TrackRetries

RecStreak ==
    /\ Len(payouts) < MaxRecordPayouts
    /\ CheckAndIssueStreakBonus("p1")
    /\ TrackRetries

RecRetention ==
    /\ Len(payouts) < MaxRecordPayouts
    /\ RunRetentionBonusRound(2025, 12)
    /\ TrackRetries

RecEvaluate ==
    /\ Len(payouts) < MaxRecordPayouts
    /\ \E level \in {"BRONZE", "SILVER", "ELITE"} :
          EvaluateProviderWithMetrics(MetricsAt("p1", level, "GW1"))
    /\ TrackRetries

RecTick == now < MaxRecordClock /\ Tick /\ UNCHANGED retries

NextRecord ==
    \/ RecRecord
    \/ RecProcess
    \/ RecBatch
    \/ RecAward
    \/ RecStreak
    \/ RecRetention
    \/ RecEvaluate
    \/ RecTick

SpecRecord == Init /\ [][NextRecord]_vars

----------------------------------------------------------------------------
(* SpecPending: the dispatcher's query over a ledger of payouts recorded   *)
(* at the same and at different times, some confirmed, failed or           *)
(* escalated.                                                              *)

PendAward ==
    /\ Len(payouts) < MaxPendingPayouts
    /\ AwardPerformanceBonus("p1", Dec(25, 0), "PERFORMANCE")
    /\ TrackRetries

PendProcess ==
    /\ Len(payouts) < MaxPendingPayouts
    /\ ProcessProviderPayout("p1", Dec(1000, 0), Options(NoValue, None, None, NoOverride))
    /\ TrackRetries

PendConfirm ==
    /\ \E id \in PayoutIds : payouts[id].status = "PENDING" /\ ConfirmPayout(id, "tx1")
    /\ TrackRetries

PendGet ==
    /\ \E limit \in {None, Some(1), Some(2)} : GetPendingPayouts(limit)
    /\ TrackRetries

PendTick == now < MaxPendingClock /\ Tick /\ UNCHANGED retries

NextPending == PendAward \/ PendProcess \/ PendConfirm \/ PendGet \/ PendTick

SpecPending == Init /\ [][NextPending]_vars

----------------------------------------------------------------------------
(* SpecTierConc: updateTierConfig calls in flight together, one step per   *)
(* await: findOne, save, the find of refreshTierCache, and the assignment  *)
(* of its result to tierCache when the awaited promise resumes the call.   *)

\* updateTierConfig is called: tierRepo.findOne is awaited
UpdCall(e, level, updates) ==
    /\ evals[e].pc = "idle"
    /\ evals' = [evals EXCEPT ![e] = [pc |-> "upd_finding", tierLevel |-> level,
                                      updates |-> updates, tier |-> Null, found |-> <<>>]]
    /\ UNCHANGED <<tiers, tierCache, assignments, payouts, now, stats, lastResult>>

\* findOne resolves: throw when there is no row, else Object.assign and
\* await tierRepo.save
UpdFound(e) ==
    LET c == evals[e]
    IN  /\ c.pc = "upd_finding"
        /\ IF c.tierLevel \notin DOMAIN tiers
           THEN /\ lastResult' = Result("updateTierConfig", [tierLevel |-> c.tierLevel],
                                        "Error", Null)
                /\ evals' = [evals EXCEPT ![e] = IdleEval]
           ELSE /\ evals' = [evals EXCEPT ![e].pc = "upd_saving",
                                          ![e].tier = AssignFields(tiers[c.tierLevel], c.updates)]
                /\ UNCHANGED lastResult
        /\ UNCHANGED <<tiers, tierCache, assignments, payouts, now, stats>>

\* tierRepo.save stores the row the call holds; refreshTierCache is awaited
UpdSaved(e) ==
    LET c == evals[e]
    IN  /\ c.pc = "upd_saving"
        /\ tiers' = [tiers EXCEPT ![c.tierLevel] = c.tier]
        /\ evals' = [evals EXCEPT ![e].pc = "upd_refreshing"]
        /\ UNCHANGED <<tierCache, assignments, payouts, now, stats, lastResult>>

\* refreshTierCache: the store answers tierRepo.find
UpdRead(e) ==
    /\ evals[e].pc = "upd_refreshing"
    /\ evals' = [evals EXCEPT ![e].pc = "upd_assigning",
                              ![e].found = ActiveTiersSorted(tiers)]
    /\ UNCHANGED <<tiers, tierCache, assignments, payouts, now, stats, lastResult>>

\* refreshTierCache: this.tierCache = the awaited rows; updateTierConfig
\* returns saved
UpdAssigned(e) ==
    LET c == evals[e]
    IN  /\ c.pc = "upd_assigning"
        /\ tierCache' = c.found
        /\ lastResult' = Result("updateTierConfig", [tierLevel |-> c.tierLevel], "none", c.tier)
        /\ evals' = [evals EXCEPT ![e] = IdleEval]
        /\ UNCHANGED <<tiers, assignments, payouts, now, stats>>

\* The updates the admin sends: thresholds of SILVER and the activity of GOLD
TierConcUpdates ==
    {<<"SILVER", [minWinRate |-> 99]>>,
     <<"SILVER", [minWinRate |-> 55]>>,
     <<"GOLD", [isActive |-> FALSE]>>,
     <<"GOLD", [isActive |-> TRUE]>>}

TierConcStart ==
    /\ \E e \in EvalIds, u \in TierConcUpdates : UpdCall(e, u[1], u[2])
    /\ TrackRetries

TierConcFind == \E e \in EvalIds : UpdFound(e) /\ TrackRetries

TierConcSave == \E e \in EvalIds : UpdSaved(e) /\ TrackRetries

TierConcRead == \E e \in EvalIds : UpdRead(e) /\ TrackRetries

TierConcAssign == \E e \in EvalIds : UpdAssigned(e) /\ TrackRetries

NextTierConc ==
    TierConcStart \/ TierConcFind \/ TierConcSave \/ TierConcRead \/ TierConcAssign

SpecTierConc == Init /\ [][NextTierConc]_vars

-----------------------------------------------------------------------------
(* SpecFresh: evaluations of p1 and p2 at different times, with metrics    *)
(* supplied and with metrics read from the stats row, while the admin      *)
(* moves SILVER's thresholds.                                              *)

FreshEvaluate ==
    /\ Len(payouts) < MaxFreshPayouts
    /\ \E level \in {"BRONZE", "SILVER"}, wallet \in {"GW1", ""} :
          EvaluateProviderWithMetrics(MetricsAt("p1", level, wallet))
    /\ TrackRetries

FreshEvaluateStats ==
    /\ EvaluateProvider("p2")
    /\ TrackRetries

FreshUpdateTier ==
    /\ \E w \in {55, 99} : UpdateTierConfig("SILVER", [minWinRate |-> w])
    /\ TrackRetries

FreshTick == now < MaxFreshClock /\ Tick /\ UNCHANGED retries

NextFresh == FreshEvaluate \/ FreshEvaluateStats \/ FreshUpdateTier \/ FreshTick

SpecFresh == Init /\ [][NextFresh]_vars

-----------------------------------------------------------------------------
(* SpecInsert: first-time evaluations and first-time calculations of one   *)
(* provider in flight together, one step per await.  Here assignmentRepo   *)
(* is the table itself: a sequence of rows, the index of a row being its   *)
(* generated id, so that two rows of one provider can be told apart.  The  *)
(* await of statsRepo.findOne in evaluateProvider is merged into the step  *)
(* before it: no step of this specification writes the stats.              *)

\* An assignment table that takes a second row of a provider (a mutant of
\* ProviderIdTaken)
ProviderIdTaken_Never(table, p) == FALSE

\* The unique index on ProviderTierAssignment.providerId: the table holds a
\* row of provider p, and an INSERT of another is rejected
ProviderIdTaken(table, p) == \E i \in DOMAIN table : table[i].providerId = p

\* assignmentRepo.findOne({ where: { providerId } }) on the table: the row
\* and its id, Null for none
FindAssignmentRow(table, p) ==
    IF \E i \in DOMAIN table : table[i].providerId = p
    THEN LET id == CHOOSE i \in DOMAIN table :
                      /\ table[i].providerId = p
                      /\ \A j \in DOMAIN table : table[j].providerId = p => i <= j
         IN  [id |-> id, row |-> table[id]]
    ELSE Null

\* The call of slot e as the caller sees it
InsOp(c) == IF c.kind = "calculate" THEN "calculateRevenueShare" ELSE "evaluateProviderWithMetrics"

InsKey(c) ==
    IF c.kind = "calculate"
    THEN [providerId |-> c.m.providerId, baseRevenue |-> c.base, includeBonus |-> FALSE]
    ELSE c.m

\* calculateRevenueShare from the assignment it holds to its return value
InsCalculation(c, hit) ==
    LET tierLevel == IF hit = Null THEN "BRONZE" ELSE hit.row.currentTier
    IN  IF tierLevel \notin DOMAIN tiers
        THEN Result("calculateRevenueShare", InsKey(c), "NotFound", Null)
        ELSE Result("calculateRevenueShare", InsKey(c), "none",
                    Calculation(c.m.providerId, tiers[tierLevel], c.base, FALSE))

\* evaluateProviderWithMetrics is called: resolveTierForMetrics runs and
\* assignmentRepo.findOne is awaited
InsEvalCall(e, m) ==
    /\ evals[e].pc = "idle"
    /\ evals' = [evals EXCEPT ![e] =
                    [pc |-> "ins_finding", kind |-> "evaluate", m |-> m,
                     newTier |-> ResolveTierForMetrics(tierCache, m),
                     row |-> Null, id |-> 0, at |-> 0, base |-> Zero]]
    /\ UNCHANGED <<tiers, tierCache, assignments, payouts, now, stats, lastResult>>

\* calculateRevenueShare is called: it throws on a base that is not
\* positive, else assignmentRepo.findOne is awaited
InsCalcCall(e, p, base) ==
    /\ evals[e].pc = "idle"
    /\ IF DecLte0(base)
       THEN /\ lastResult' = Result("calculateRevenueShare",
                                    [providerId |-> p, baseRevenue |-> base, includeBonus |-> FALSE],
                                    "InvalidArgument", Null)
            /\ UNCHANGED evals
       ELSE /\ evals' = [evals EXCEPT ![e] =
                           [pc |-> "calc_finding", kind |-> "calculate",
                            m |-> MetricsOfStats(p), newTier |-> NoValue,
                            row |-> Null, id |-> 0, at |-> 0, base |-> base]]
            /\ UNCHANGED lastResult
    /\ UNCHANGED <<tiers, tierCache, assignments, payouts, now, stats>>

\* calculateRevenueShare's findOne resolves: with a row it goes on to its
\* result, without one it calls evaluateProvider
InsCalcFound(e) ==
    LET c == evals[e]
        hit == FindAssignmentRow(assignments, c.m.providerId)
    IN  /\ c.pc = "calc_finding"
        /\ IF hit # Null
           THEN /\ lastResult' = InsCalculation(c, hit)
                /\ evals' = [evals EXCEPT ![e] = IdleEval]
           ELSE /\ evals' = [evals EXCEPT ![e].pc = "ins_finding",
                                          ![e].newTier = ResolveTierForMetrics(tierCache, c.m)]
                /\ UNCHANGED lastResult
        /\ UNCHANGED <<tiers, tierCache, assignments, payouts, now, stats>>

\* evaluateProviderWithMetrics's findOne resolves; the call runs up to its
\* next await
InsFound(e) ==
    LET c == evals[e]
        hit == FindAssignmentRow(assignments, c.m.providerId)
        row == IF hit = Null THEN Null ELSE hit.row
    IN  /\ c.pc = "ins_finding"
        /\ evals' = [evals EXCEPT
                        ![e].pc = IF BonusDue(tierCache, row, c.m, c.newTier)
                                  THEN "ins_recording" ELSE "ins_saving",
                        ![e].row = row,
                        ![e].id = IF hit = Null THEN 0 ELSE hit.id,
                        ![e].at = now]
        /\ UNCHANGED <<tiers, tierCache, assignments, payouts, now, stats, lastResult>>

\* recordPayout stores the promotion payout
InsRecorded(e) ==
    LET c == evals[e]
    IN  /\ c.pc = "ins_recording"
        /\ payouts' = Append(payouts,
                             NewPayout(PromotionPayoutParams(tierCache, c.m, c.newTier),
                                       Len(payouts) + 1, now))
        /\ evals' = [evals EXCEPT ![e].pc = "ins_saving"]
        /\ UNCHANGED <<tiers, tierCache, assignments, now, stats, lastResult>>

\* assignmentRepo.save: an INSERT of the created assignment, which the
\* table rejects when the provider has a row, or an UPDATE of the row that
\* was found.  The evaluation returns, or throws what the table threw
InsSaved(e) ==
    LET c == evals[e]
        saved == EvaluatedAssignment(tierCache, c.row, c.m, c.newTier, c.at)
        rejected == c.row = Null /\ ProviderIdTaken(assignments, c.m.providerId)
    IN  /\ c.pc = "ins_saving"
        /\ assignments' = IF rejected THEN assignments
                          ELSE IF c.row = Null THEN Append(assignments, saved)
                          ELSE [assignments EXCEPT ![c.id] = saved]
        /\ IF rejected
           THEN /\ lastResult' = Result(InsOp(c), InsKey(c), "QueryFailed", Null)
                /\ evals' = [evals EXCEPT ![e] = IdleEval]
           ELSE IF c.kind = "calculate"
           THEN /\ evals' = [evals EXCEPT ![e].pc = "calc_refinding"]
                /\ UNCHANGED lastResult
           ELSE /\ lastResult' = Result(InsOp(c), InsKey(c), "none",
                                        EvaluationResult(tierCache, c.row, c.m, c.newTier))
                /\ evals' = [evals EXCEPT ![e] = IdleEval]
        /\ UNCHANGED <<tiers, tierCache, payouts, now, stats>>

\* calculateRevenueShare reads the assignment again and returns
InsCalcReturned(e) ==
    LET c == evals[e]
    IN  /\ c.pc = "calc_refinding"
        /\ lastResult' = InsCalculation(c, FindAssignmentRow(assignments, c.m.providerId))
        /\ evals' = [evals EXCEPT ![e] = IdleEval]
        /\ UNCHANGED <<tiers, tierCache, assignments, payouts, now, stats>>

\* The evaluations called with a wallet address that are in flight besides
\* slot e: each may record a payout
InsOthers(e) == {x \in EvalIds \ {e} : evals[x].pc # "idle" /\ evals[x].kind = "evaluate"}

InsertEvaluate ==
    /\ \E e \in EvalIds :
          /\ Len(payouts) + Cardinality(InsOthers(e)) < MaxInsertPayouts
          /\ InsEvalCall(e, MetricsAt("p3", "SILVER", "GW1"))
    /\ TrackRetries

InsertCalculate ==
    /\ \E e \in EvalIds : InsCalcCall(e, "p3", Dec(1000, 0))
    /\ TrackRetries

InsertCalcFind == \E e \in EvalIds : InsCalcFound(e) /\ TrackRetries

InsertFind == \E e \in EvalIds : InsFound(e) /\ TrackRetries

InsertRecord == \E e \in EvalIds : InsRecorded(e) /\ TrackRetries

InsertSave == \E e \in EvalIds : InsSaved(e) /\ TrackRetries

InsertCalcReturn == \E e \in EvalIds : InsCalcReturned(e) /\ TrackRetries

NextInsert ==
    \/ InsertEvaluate
    \/ InsertCalculate
    \/ InsertCalcFind
    \/ InsertFind
    \/ InsertRecord
    \/ InsertSave
    \/ InsertCalcReturn

SpecInsert == Init /\ [][NextInsert]_vars

-----------------------------------------------------------------------------
(* SpecWallet: the four ways an evaluation is started, on providers whose  *)
(* supplied metrics put them below and at the tier of their stats row.     *)

WalletEvaluate ==
    /\ Len(payouts) < MaxWalletPayouts
    /\ \E level \in {"BRONZE", "SILVER"}, wallet \in {"GW1", ""} :
          EvaluateProviderWithMetrics(MetricsAt("p1", level, wallet))
    /\ TrackRetries

WalletEvaluateStats ==
    /\ \E p \in {"p1", "p2"} : EvaluateProvider(p)
    /\ TrackRetries

WalletEvaluateAll ==
    /\ \E failing \in {{}, {"p2"}} : EvaluateAllProviders(failing)
    /\ TrackRetries

WalletCalculate ==
    /\ \E p \in {"p1", "p2", "p3"} : CalculateRevenueShare(p, Dec(1000, 0), FALSE)
    /\ TrackRetries

NextWallet == WalletEvaluate \/ WalletEvaluateStats \/ WalletEvaluateAll \/ WalletCalculate

SpecWallet == Init /\ [][NextWallet]_vars

-----------------------------------------------------------------------------
(* SpecEscalate: processProviderPayout with its auto-escalation as a step  *)
(* of its own, after the await of recordPayout, while the dispatcher reads *)
(* the pending payouts and confirms or fails them.  The awaits before      *)
(* recordPayout are merged into the first step: no other step of this      *)
(* specification writes what they read.                                    *)

\* processProviderPayout: the row recordPayout stored, before any escalation
RecordedRow(p, base, options, id, t) ==
    NewPayout(PayoutParams(CalculateValue(p, base, IncludeBonusOf(options), t), options,
                           UserRepo[p].walletAddress),
              id, t)

\* processProviderPayout up to the return of recordPayout: it throws, or
\* the PENDING row is in the ledger and the call either returns or, for an
\* ELITE or PLATINUM provider, awaits escalatePayout
EscCall(e, p, base, options) ==
    LET id == Len(payouts) + 1
        row == RecordedRow(p, base, options, id, now)
        key == [providerId |-> p, baseRevenue |-> base]
    IN  /\ evals[e].pc = "idle"
        /\ assignments' = IF DecLte0(base) THEN assignments
                          ELSE AssignmentsAfterCalculate(p, now)
        /\ IF ProcessError(p, base, now) # "none"
           THEN /\ lastResult' = Result("processProviderPayout", key,
                                        ProcessError(p, base, now), Null)
                /\ UNCHANGED <<payouts, evals>>
           ELSE /\ payouts' = Append(payouts, row)
                /\ IF Escalates(row.tierLevel)
                   THEN /\ evals' = [evals EXCEPT ![e] =
                                       [pc |-> "esc_saving", key |-> key, id |-> id]]
                        /\ UNCHANGED lastResult
                   ELSE /\ lastResult' = Result("processProviderPayout", key, "none", row)
                        /\ UNCHANGED evals
        /\ UNCHANGED <<tiers, tierCache, now, stats>>

\* escalatePayout: payoutRepo.save writes the status PROCESSING of the
\* payout object the call holds; processProviderPayout returns
EscSaved(e) ==
    LET c == evals[e]
    IN  /\ c.pc = "esc_saving"
        /\ payouts' = [payouts EXCEPT ![c.id] = EscalatedRow(@)]
        /\ lastResult' = Result("processProviderPayout", c.key, "none", payouts'[c.id])
        /\ evals' = [evals EXCEPT ![e] = IdleEval]
        /\ UNCHANGED <<tiers, tierCache, assignments, now, stats>>

EscalateProcess ==
    /\ Len(payouts) < MaxEscalatePayouts
    /\ \E e \in EvalIds, p \in {"p1", "p2"} :
          EscCall(e, p, Dec(1000, 0), Options(NoValue, None, None, NoOverride))
    /\ TrackRetries

EscalateSave == \E e \in EvalIds : EscSaved(e) /\ TrackRetries

EscalateGet ==
    /\ \E limit \in {None, Some(1)} : GetPendingPayouts(limit)
    /\ TrackRetries

EscalateConfirm ==
    /\ \E id \in PayoutIds :
          /\ payouts[id].status \in {"PENDING", "PROCESSING"}
          /\ ConfirmPayout(id, "tx1")
    /\ TrackRetries

EscalateFail ==
    /\ \E id \in PayoutIds :
          /\ payouts[id].status \in {"PENDING", "PROCESSING"}
          /\ payouts[id].retryCount < MaxFailures
          /\ MarkPayoutFailed(id, "rejected")
    /\ TrackRetries

NextEscalate ==
    EscalateProcess \/ EscalateSave \/ EscalateGet \/ EscalateConfirm \/ EscalateFail

SpecEscalate == Init /\ [][NextEscalate]_vars

-----------------------------------------------------------------------------
(* SpecFailConc: markPayoutFailed calls in flight together, one step per   *)
(* await (findOne, save), beside confirmPayout and retryFailedPayout.      *)

\* markPayoutFailed is called: payoutRepo.findOne is awaited
FailCall(e, id, reason) ==
    /\ evals[e].pc = "idle"
    /\ evals' = [evals EXCEPT ![e] = [pc |-> "fail_finding", id |-> id,
                                      reason |-> reason, row |-> Null]]
    /\ UNCHANGED <<tiers, tierCache, assignments, payouts, now, stats, lastResult>>

\* findOne resolves: throw when there is no payout, else set status,
\* failureReason and retryCount += 1 on the object and await save
FailFound(e) ==
    LET c == evals[e]
    IN  /\ c.pc = "fail_finding"
        /\ IF c.id \notin PayoutIds
           THEN /\ lastResult' = Result("markPayoutFailed", [payoutId |-> c.id], "NotFound", Null)
                /\ evals' = [evals EXCEPT ![e] = IdleEval]
           ELSE /\ evals' = [evals EXCEPT ![e].pc = "fail_saving",
                                          ![e].row = FailedRow(payouts[c.id], c.reason)]
                /\ UNCHANGED lastResult
        /\ UNCHANGED <<tiers, tierCache, assignments, payouts, now, stats>>

\* payoutRepo.save stores the object the call holds; markPayoutFailed returns
FailSaved(e) ==
    LET c == evals[e]
    IN  /\ c.pc = "fail_saving"
        /\ payouts' = [payouts EXCEPT ![c.id] = c.row]
        /\ lastResult' = Result("markPayoutFailed", [payoutId |-> c.id], "none", c.row)
        /\ evals' = [evals EXCEPT ![e] = IdleEval]
        /\ UNCHANGED <<tiers, tierCache, assignments, now, stats>>

FailConcAward ==
    /\ Len(payouts) < MaxPayouts
    /\ AwardPerformanceBonus("p1", Dec(25, 0), "PERFORMANCE")
    /\ TrackRetries

FailConcStart ==
    /\ \E e \in EvalIds, id \in PayoutIds, reason \in {"rejected", "timeout"} :
          /\ payouts[id].retryCount < MaxFailures
          /\ FailCall(e, id, reason)
    /\ TrackRetries

FailConcFind == \E e \in EvalIds : FailFound(e) /\ TrackRetries

FailConcSave == \E e \in EvalIds : FailSaved(e) /\ TrackRetries

FailConcConfirm ==
    /\ \E id \in PayoutIds : payouts[id].status = "PENDING" /\ ConfirmPayout(id, "tx1")
    /\ TrackRetries

FailConcRetry ==
    /\ \E id \in PayoutIds : payouts[id].status = "FAILED" /\ RetryFailedPayout(id)
    /\ TrackRetries

NextFailConc ==
    \/ FailConcAward
    \/ FailConcStart
    \/ FailConcFind
    \/ FailConcSave
    \/ FailConcConfirm
    \/ FailConcRetry

SpecFailConc == Init /\ [][NextFailConc]_vars

-----------------------------------------------------------------------------
(* SpecBatchFail: monthly batches in which payoutRepo.save of the          *)
(* auto-escalation rejects for some providers.                             *)

BatchFailEvaluate ==
    /\ \E level \in {"BRONZE", "GOLD"} :
          EvaluateProviderWithMetrics(MetricsAt("p1", level, ""))
    /\ TrackRetries

BatchFailRun ==
    /\ \E entries \in {<< <<"p1", Dec(1000, 0)>>, <<"p2", Zero>> >>,
                       << <<"p3", Dec(1000, 0)>>, <<"p1", Dec(1000, 0)>> >>,
                       << <<"p2", Dec(33, 333333330)>>, <<"p1", Dec(500, 0)>> >>},
          failing \in {{}, {"p1"}, {"p1", "p2"}} :
          /\ Len(payouts) + Len(entries) <= MaxBatchPayouts
          /\ ProcessMontlyBatchFailing(2026, 1, entries, failing)
    /\ TrackRetries

NextBatchFail == BatchFailEvaluate \/ BatchFailRun

SpecBatchFail == Init /\ [][NextBatchFail]_vars

-----------------------------------------------------------------------------
(* SpecMonthly: the scheduler's month end: monthly batches and retention   *)
(* bonus rounds for the periods 2026-1 and 2026-2, in any order and any    *)
(* number of times.                                                        *)

MonthlyEvaluate ==
    /\ \E p \in {"p1", "p3"}, level \in {"GOLD", "ELITE"} :
          EvaluateProviderWithMetrics(MetricsAt(p, level, ""))
    /\ TrackRetries

MonthlyBatch ==
    /\ \E month \in {1, 2},
          entries \in {<< <<"p1", Dec(1000, 0)>> >>,
                       << <<"p1", Dec(1000, 0)>>, <<"p2", Dec(500, 0)>> >>} :
          /\ Len(payouts) + Len(entries) <= MaxMonthlyPayouts
          /\ ProcessMontlyBatch(2026, month, entries)
    /\ TrackRetries

MonthlyRetention ==
    /\ Len(payouts) < MaxMonthlyPayouts
    /\ \E month \in {1, 2} : RunRetentionBonusRound(2026, month)
    /\ TrackRetries

NextMonthly == MonthlyEvaluate \/ MonthlyBatch \/ MonthlyRetention

SpecMonthly == Init /\ [][NextMonthly]_vars

-----------------------------------------------------------------------------
(* SpecMonotone: resolveTierForMetrics over a grid of metrics, for the     *)
(* caches the admin's updates produce: tiers switched off, and SILVER's    *)
(* win rate threshold put above GOLD's.                                    *)

\* The metrics resolved: every combination of these component values
MonotoneMetrics ==
    {Metrics("p1", w, s, c, r, "") :
        w \in {0, 62, 75, 99}, s \in {0, 50, 200}, c \in {0, 300}, r \in {0, 85}}

MonotoneUpdates ==
    {<<"BRONZE", [isActive |-> FALSE]>>,
     <<"BRONZE", [isActive |-> TRUE]>>,
     <<"ELITE", [isActive |-> FALSE]>>,
     <<"ELITE", [isActive |-> TRUE]>>,
     <<"SILVER", [minWinRate |-> 99]>>,
     <<"SILVER", [minWinRate |-> 55]>>,
     <<"GOLD", [minCopiers |-> 0, minReputationScore |-> 0]>>,
     <<"GOLD", [minCopiers |-> 50, minReputationScore |-> 65]>>}

MonotoneUpdate ==
    /\ \E u \in MonotoneUpdates : UpdateTierConfig(u[1], u[2])
    /\ TrackRetries

MonotoneResolve ==
    /\ \E m \in MonotoneMetrics : ResolveTier(m)
    /\ TrackRetries

NextMonotone == MonotoneUpdate \/ MonotoneResolve

SpecMonotone == Init /\ [][NextMonotone]_vars

-----------------------------------------------------------------------------
(* Ledger arithmetic claims.                                               *)

\* C1 as stated: in every reachable state every payout row has totalPayout
\* exactly revenueShareAmount + bonusAmount, whichever operation created it
\* and whatever happened to it since.
C1_TotalIsExactSum ==
    \A i \in PayoutIds :
        payouts[i].totalPayout = DecPlus(payouts[i].revenueShareAmount, payouts[i].bonusAmount)

\* C1 amended: in every reachable state every payout row has totalPayout
\* equal to revenueShareAmount + bonusAmount to eight fractional digits
\* (both rounded half up), whichever operation created it and whatever
\* happened to it since.
C1_TotalIsSumToEightDigits ==
    \A i \in PayoutIds :
        ToFixed8(payouts[i].totalPayout)
            = ToFixed8(DecPlus(payouts[i].revenueShareAmount, payouts[i].bonusAmount))

\* A payout of 1000 created for the ELITE provider with the override of
\* 0.000000005, then failed, retried and confirmed
C1_Witness ==
    \E i \in PayoutIds :
        /\ payouts[i].revenueShareAmount = Dec(100, 0)
        /\ payouts[i].bonusAmount = Dec(0, 5)
        /\ payouts[i].totalPayout = Dec(100, 10)
        /\ payouts[i].retryCount = 1
        /\ payouts[i].status = "COMPLETED"

----------------------------------------------------------------------------
(* Payout lifecycle claims.                                                *)

\* The payout a ledger call of lastResult was about
IsCall(result, op, id) == result.op = op /\ result.key.payoutId = id

\* C2: COMPLETED is terminal: once a payout is COMPLETED no confirmPayout,
\* markPayoutFailed or retryFailedPayout call changes its status.
C2_CompletedIsTerminal ==
    [][\A id \in PayoutIds :
          payouts[id].status = "COMPLETED" => payouts'[id].status = "COMPLETED"]_vars

\* C3: retryFailedPayout on a payout that is not FAILED throws InvalidState
\* and leaves the row unchanged; the only step that takes an existing payout
\* into PENDING is a retryFailedPayout of a FAILED one, and it clears
\* failureReason.
C3_RetryOnlyFromFailed ==
    [][\A id \in PayoutIds :
          /\ (IsCall(lastResult', "retryFailedPayout", id) /\ payouts[id].status # "FAILED")
                => (lastResult'.error = "InvalidState" /\ payouts'[id] = payouts[id])
          /\ (payouts[id].status # "PENDING" /\ payouts'[id].status = "PENDING")
                => /\ payouts[id].status = "FAILED"
                   /\ IsCall(lastResult', "retryFailedPayout", id)
                   /\ payouts'[id].failureReason = NoValue]_vars

\* A retry of a PROCESSING payout was refused with InvalidState
C3_Witness ==
    /\ lastResult.op = "retryFailedPayout"
    /\ lastResult.error = "InvalidState"
    /\ lastResult.key.payoutId \in PayoutIds
    /\ payouts[lastResult.key.payoutId].status = "PROCESSING"

\* C4: for a payout failed and retried in alternation (every failure after
\* the first follows a retry), a retry refused with LimitExceeded is the 6th
\* attempt or a later one: five retries went through before it.
C4_SixthRetryIsFirstRefused ==
    \A id \in PayoutIds :
        (/\ IsCall(lastResult, "retryFailedPayout", id)
         /\ lastResult.error = "LimitExceeded"
         /\ payouts[id].retryCount = retries[id] + 1)
            => retries[id] >= 5

\* C5 as stated: from retryCount >= 5 on, every retryFailedPayout of the
\* payout throws LimitExceeded, and the payout is never PENDING again.
C5_RetryRefusedWithLimitExceeded ==
    [][\A id \in PayoutIds :
          payouts[id].retryCount >= 5 =>
              /\ payouts'[id].status # "PENDING"
              /\ IsCall(lastResult', "retryFailedPayout", id)
                    => (lastResult'.error = "LimitExceeded" /\ payouts'[id] = payouts[id])]_vars

\* C5 amended: from retryCount >= 5 on, every retryFailedPayout of the payout
\* is refused, with LimitExceeded when its status is FAILED and with
\* InvalidState otherwise, leaving the row unchanged; retryCount stays >= 5
\* and the payout is never PENDING again.
C5_RetryRefusedAtLimit ==
    /\ [](\A id \in PayoutIds :
             payouts[id].retryCount >= 5 => payouts[id].status # "PENDING")
    /\ [][\A id \in PayoutIds :
             payouts[id].retryCount >= 5 =>
                 /\ payouts'[id].retryCount >= 5
                 /\ payouts'[id].status # "PENDING"
                 /\ IsCall(lastResult', "retryFailedPayout", id)
                       => /\ lastResult'.error =
                                IF payouts[id].status = "FAILED"
                                THEN "LimitExceeded" ELSE "InvalidState"
                          /\ payouts'[id] = payouts[id]]_vars

\* A retry of a FAILED payout with retryCount 5 was refused with LimitExceeded
C5_Witness ==
    /\ lastResult.op = "retryFailedPayout"
    /\ lastResult.error = "LimitExceeded"
    /\ payouts[lastResult.key.payoutId].retryCount >= 5
    /\ payouts[lastResult.key.payoutId].status = "FAILED"

\* C6: confirmPayout of a COMPLETED payout, with whatever txHash, returns the
\* row and leaves it (status, stellarTxHash, paidAt) as the first
\* confirmation set it.
C6_ConfirmIdempotent ==
    [][\A id \in PayoutIds :
          (payouts[id].status = "COMPLETED" /\ IsCall(lastResult', "confirmPayout", id))
             => /\ lastResult'.error = "none"
                /\ lastResult'.value = payouts[id]
                /\ payouts'[id] = payouts[id]]_vars

\* A COMPLETED payout was confirmed again, later and with another txHash
C6_Witness ==
    /\ lastResult.op = "confirmPayout"
    /\ lastResult.error = "none"
    /\ payouts[lastResult.key.payoutId].status = "COMPLETED"
    /\ payouts[lastResult.key.payoutId].stellarTxHash # lastResult.key.stellarTxHash
    /\ payouts[lastResult.key.payoutId].paidAt # Some(now)

----------------------------------------------------------------------------
(* Evaluation claims.                                                      *)

\* The PERFORMANCE payouts of provider p at tier level
PerformancePayouts(p, level) ==
    {i \in PayoutIds : /\ payouts[i].providerId = p
                       /\ payouts[i].bonusType = "PERFORMANCE"
                       /\ payouts[i].tierLevel = level}

\* C7: the promotion bonus is one-time: whatever the sequence of evaluations
\* (demotion and re-promotion included), no provider holds two PERFORMANCE
\* promotion payouts for reaching the same tier.
C7_PromotionBonusOnce ==
    \A p \in Providers, level \in TierLevels : Cardinality(PerformancePayouts(p, level)) <= 1

C9_ConcurrentPromotionPaidOnce ==
    \A i \in PayoutIds, j \in PayoutIds :
        (/\ i < j
         /\ payouts[i].bonusType = "PERFORMANCE"
         /\ payouts[j].bonusType = "PERFORMANCE"
         /\ payouts[i].providerId = payouts[j].providerId)
            => payouts[i].tierLevel # payouts[j].tierLevel

----------------------------------------------------------------------------
(* Calculation claims.                                                     *)

\* r is x rounded half up to eight fractional digits
IsRounded8(r, x) ==
    /\ r.f % 10 = 0
    /\ r.neg = x.neg
    /\ r.w - x.w \in {0, 1}
    /\ (r.w - x.w) * Nano + r.f - x.f \in -4 .. 5

\* C10: for every positive baseRevenue and every tier of the provider,
\* calculateRevenueShare returns revenueShareAmount = baseRevenue x the
\* tier's revenueSharePercentage / 100 rounded to eight digits; bonusAmount =
\* the tier's monthlyRetentionBonusUsdc (to eight digits) with bonusType
\* MONTHLY_TOP when includeBonus is true and that bonus is > 0, otherwise 0
\* and no bonus type; totalPayout = revenueShareAmount + bonusAmount; and
\* 1000 at GOLD (8%, retention bonus 20) with bonus gives 80, 20 and 100.
C10_CalculationFormula ==
    lastResult.op = "calculateRevenueShare" =>
        LET k   == lastResult.key
            v   == lastResult.value
            def == tiers[assignments[k.providerId].currentTier]
        IN  IF DecLte0(k.baseRevenue) THEN lastResult.error = "InvalidArgument"
            ELSE /\ lastResult.error = "none"
                 /\ v.tierLevel = def.tierLevel
                 /\ v.sharePercentage = def.revenueSharePercentage
                 /\ IsRounded8(v.revenueShareAmount,
                               TimesDiv100(k.baseRevenue, def.revenueSharePercentage))
                 /\ IF k.includeBonus /\ DecGt0(def.monthlyRetentionBonusUsdc)
                    THEN /\ IsRounded8(v.bonusAmount, def.monthlyRetentionBonusUsdc)
                         /\ v.bonusType = "MONTHLY_TOP"
                    ELSE /\ v.bonusAmount = Zero
                         /\ v.bonusType = NoValue
                 /\ v.totalPayout = DecPlus(v.revenueShareAmount, v.bonusAmount)
                 /\ (/\ k.baseRevenue = Dec(1000, 0)
                     /\ def = DEFAULT_TIERS["GOLD"]
                     /\ k.includeBonus)
                       => /\ v.revenueShareAmount = Dec(80, 0)
                          /\ v.bonusAmount = Dec(20, 0)
                          /\ v.totalPayout = Dec(100, 0)
                 /\ (k.baseRevenue = Dec(0, 130) /\ def = DEFAULT_TIERS["BRONZE"])
                       => v.revenueShareAmount = Dec(0, 10)
                 /\ (k.baseRevenue = Dec(33, 333333330) /\ def = DEFAULT_TIERS["ELITE"])
                       => v.revenueShareAmount = Dec(3, 333333330)

\* calculate(p1, 1000, true) returned 80, 20 and 100 at GOLD
C10_Witness ==
    /\ lastResult.op = "calculateRevenueShare"
    /\ lastResult.error = "none"
    /\ lastResult.key.baseRevenue = Dec(1000, 0)
    /\ lastResult.key.includeBonus
    /\ lastResult.value.tierLevel = "GOLD"
    /\ lastResult.value.bonusType = "MONTHLY_TOP"
    /\ lastResult.value.totalPayout = Dec(100, 0)

\* C11: calculateRevenueShare with a baseRevenue <= 0 throws InvalidArgument
\* for every provider and includeBonus, before any evaluation: assignments
\* and payouts stay as they were; processProviderPayout with such a
\* baseRevenue throws the same and records no payout.
C11_NonPositiveBaseRejected ==
    [][(/\ lastResult'.op \in {"calculateRevenueShare", "processProviderPayout"}
        /\ lastResult'.key.baseRevenue \in {Zero, DecNeg(5, 0)})
          => /\ lastResult'.error = "InvalidArgument"
             /\ assignments' = assignments
             /\ payouts' = payouts]_vars

\* processProviderPayout of -5 was refused for p3, which has no assignment
C11_Witness ==
    /\ lastResult.op = "processProviderPayout"
    /\ lastResult.key = [providerId |-> "p3", baseRevenue |-> DecNeg(5, 0)]
    /\ lastResult.error = "InvalidArgument"
    /\ "p3" \notin DOMAIN assignments

----------------------------------------------------------------------------
(* Tier catalog claims.                                                    *)

\* The rank of a tier in BRONZE < SILVER < GOLD < PLATINUM < ELITE
Rank(level) ==
    CASE level = "BRONZE" -> 1
      [] level = "SILVER" -> 2
      [] level = "GOLD" -> 3
      [] level = "PLATINUM" -> 4
      [] level = "ELITE" -> 5

\* The cached tiers all four of whose minimums the metrics m reach
Reached(m) ==
    {i \in 1..Len(tierCache) :
        /\ m.winRate >= tierCache[i].minWinRate
        /\ m.totalSignals >= tierCache[i].minSignals
        /\ m.totalCopiers >= tierCache[i].minCopiers
        /\ m.reputationScore >= tierCache[i].minReputationScore}

\* C13: resolveTierForMetrics returns the highest-ranked cached tier whose
\* four minimums the metrics reach, BRONZE when there is none; metrics equal
\* to the cached ELITE's thresholds resolve to ELITE; the result is a
\* function of the cache and the metrics alone.
C13_ResolveIsHighestQualifying ==
    lastResult.op = "resolveTierForMetrics" =>
        LET m == lastResult.key
            r == lastResult.value.tierLevel
        IN  /\ lastResult.error = "none"
            /\ IF Reached(m) = {} THEN r = "BRONZE"
               ELSE /\ \E i \in Reached(m) : tierCache[i].tierLevel = r
                    /\ \A j \in Reached(m) : Rank(r) >= Rank(tierCache[j].tierLevel)
            /\ \A i \in 1..Len(tierCache) :
                  (/\ tierCache[i].tierLevel = "ELITE"
                   /\ m.winRate = tierCache[i].minWinRate
                   /\ m.totalSignals = tierCache[i].minSignals
                   /\ m.totalCopiers = tierCache[i].minCopiers
                   /\ m.reputationScore = tierCache[i].minReputationScore)
                     => r = "ELITE"

\* Metrics at ELITE's thresholds resolved to ELITE
C13_Witness ==
    /\ lastResult.op = "resolveTierForMetrics"
    /\ lastResult.key = MetricsAt("p1", "ELITE", "")
    /\ lastResult.value.tierLevel = "ELITE"

\* C14: in every reachable state of the catalog, resolveTierForMetrics on
\* all-zero metrics returns BRONZE, and an evaluation of a provider without
\* a stats row gives BRONZE.
C14_ZeroMetricsResolveToBronze ==
    /\ ResolveTierForMetrics(tierCache, Metrics("p3", 0, 0, 0, 0, "")) = "BRONZE"
    /\ (lastResult.op = "resolveTierForMetrics" /\ lastResult.key = Metrics("p1", 0, 0, 0, 0, ""))
          => lastResult.value.tierLevel = "BRONZE"
    /\ lastResult.op = "evaluateProvider"
          => /\ lastResult.value.newTier = "BRONZE"
             /\ assignments[lastResult.key.providerId].currentTier = "BRONZE"

\* p3 was evaluated to BRONZE with BRONZE switched off and SILVER's win
\* rate, signal and copier minimums at zero
C14_Witness ==
    /\ lastResult.op = "evaluateProvider"
    /\ lastResult.key.providerId = "p3"
    /\ lastResult.value.newTier = "BRONZE"
    /\ ~tiers["BRONZE"].isActive
    /\ tiers["SILVER"].minWinRate = 0
    /\ tiers["SILVER"].minSignals = 0
    /\ tiers["SILVER"].minCopiers = 0

\* ---------------------------------------------------------------------------
\* Evaluation outcome claims
\* ---------------------------------------------------------------------------

\* C15: an evaluation reports promoted exactly when the provider had an
\* assignment before the call and the new tier ranks strictly above the tier
\* of that assignment, demoted exactly when it had one and the new tier ranks
\* strictly below, never both, and neither on a first evaluation or when the
\* tier is unchanged.
C15_PromotedDemotedByRank ==
    [][lastResult'.op = "evaluateProviderWithMetrics" =>
          LET p == lastResult'.key.providerId
              r == lastResult'.value
              existed == p \in DOMAIN assignments
              before == IF existed THEN Rank(assignments[p].currentTier) ELSE 0
              after == Rank(r.newTier)
          IN  /\ r.promoted = (existed /\ after > before)
              /\ r.demoted = (existed /\ after < before)
              /\ ~(r.promoted /\ r.demoted)
              /\ (~existed \/ after = before) => (~r.promoted /\ ~r.demoted)]_vars

\* An evaluation demoted p1 from ELITE to SILVER
C15_Witness ==
    /\ lastResult.op = "evaluateProviderWithMetrics"
    /\ lastResult.value.demoted
    /\ ~lastResult.value.promoted
    /\ lastResult.value.previousTier = "ELITE"
    /\ lastResult.value.newTier = "SILVER"

\* ---------------------------------------------------------------------------
\* Seeding claims
\* ---------------------------------------------------------------------------

\* C16: every run of onModuleInit's seeding, the first one and each later
\* one, leaves exactly five tier rows, one per level: it saves a row only for
\* a level that had none, so the rows before plus the rows saved are five,
\* and every row that existed before the run, changed by updateTierConfig
\* or not, is left as it was.
C16_SeedIdempotent ==
    [][lastResult'.op = "onModuleInit" =>
          LET seeded == lastResult'.value.seeded
          IN  /\ DOMAIN tiers' = TierLevels
              /\ Cardinality(DOMAIN tiers) + Len(seeded) = Cardinality(TierLevels)
              /\ \A l \in DOMAIN tiers : tiers'[l] = tiers[l]
              /\ DOMAIN tiers = TierLevels => (seeded = <<>> /\ tiers' = tiers)]_vars

\* A restart seeded nothing and kept SILVER's updated win-rate minimum
C16_Witness ==
    /\ lastResult.op = "onModuleInit"
    /\ lastResult.value.seeded = <<>>
    /\ DOMAIN tiers = TierLevels
    /\ tiers["SILVER"].minWinRate = 99

\* ---------------------------------------------------------------------------
\* Tier update claims
\* ---------------------------------------------------------------------------

\* C17: in every reachable state of the tier catalog, after seeding and
\* after any sequence of updateTierConfig calls, each of minWinRate,
\* minSignals, minCopiers and minReputationScore is non-decreasing with
\* sortOrder across the tier definitions.
C17_ThresholdsNonDecreasing ==
    \A a \in DOMAIN tiers, b \in DOMAIN tiers :
        tiers[a].sortOrder <= tiers[b].sortOrder
            => /\ tiers[a].minWinRate <= tiers[b].minWinRate
               /\ tiers[a].minSignals <= tiers[b].minSignals
               /\ tiers[a].minCopiers <= tiers[b].minCopiers
               /\ tiers[a].minReputationScore <= tiers[b].minReputationScore

\* C18: an updateTierConfig call for a tier level that has no row fails with
\* the NotFound error kind and leaves the stored tier definitions and the
\* tier cache as they were.
C18_UnknownLevelNotFound ==
    [][(lastResult'.op = "updateTierConfig" /\ lastResult'.key.tierLevel \notin DOMAIN tiers)
          => /\ lastResult'.error = "NotFound"
             /\ tiers' = tiers
             /\ tierCache' = tierCache]_vars

\* ---------------------------------------------------------------------------
\* Payout processing claims
\* ---------------------------------------------------------------------------

\* C19: a processProviderPayout call with a positive base revenue for a
\* provider without a payable wallet address, one with no user record or one
\* whose user record has no wallet address, fails with NotFound and records
\* no payout row; every row a call records has a non-empty
\* providerWalletAddress.
C19_NoWalletNoPayout ==
    [][(lastResult'.op = "processProviderPayout" /\ DecGt0(lastResult'.key.baseRevenue)) =>
          LET p == lastResult'.key.providerId
              payable == IF p \in DOMAIN UserRepo THEN UserRepo[p].walletAddress # "" ELSE FALSE
          IN  /\ ~payable => (lastResult'.error = "NotFound" /\ payouts' = payouts)
              /\ lastResult'.error = "none"
                    => lastResult'.value.providerWalletAddress # ""]_vars

\* C20: the payout a successful processProviderPayout call creates has the
\* tier the provider holds once the calculation is done, and its status is
\* PROCESSING exactly when that tier is ELITE or PLATINUM and PENDING
\* otherwise; and a PENDING payout leaves PENDING only in a confirmPayout
\* or markPayoutFailed call for that payout.
C20_EscalationByTier ==
    [][/\ (lastResult'.op = "processProviderPayout" /\ lastResult'.error = "none") =>
             LET p == lastResult'.key.providerId
                 row == lastResult'.value
             IN  /\ Len(payouts') = Len(payouts) + 1
                 /\ payouts'[Len(payouts')] = row
                 /\ row.tierLevel = assignments'[p].currentTier
                 /\ (row.status = "PROCESSING") <=> (row.tierLevel \in {"ELITE", "PLATINUM"})
                 /\ (row.status = "PENDING") <=> (row.tierLevel \in {"BRONZE", "SILVER", "GOLD"})
       /\ \A id \in DOMAIN payouts :
             (payouts[id].status = "PENDING" /\ payouts'[id].status # "PENDING")
                 => /\ lastResult'.op \in {"confirmPayout", "markPayoutFailed"}
                    /\ lastResult'.key.payoutId = id]_vars

\* A payout processed for p1 at PLATINUM is PROCESSING
C20_Witness ==
    /\ lastResult.op = "processProviderPayout"
    /\ lastResult.error = "none"
    /\ lastResult.value.tierLevel = "PLATINUM"
    /\ lastResult.value.status = "PROCESSING"

\* ---------------------------------------------------------------------------
\* Monthly batch claims
\* ---------------------------------------------------------------------------

\* baseRevenue <= 0, read off the digits
NonPositive(d) == d.neg \/ (d.w = 0 /\ d.f = 0)

\* The sum of the totalPayout of the rows of a set, whole part and
\* fractional part added apart and the carry taken at the end
RECURSIVE SumWhole(_)
SumWhole(rows) ==
    IF rows = {} THEN 0
    ELSE LET r == CHOOSE x \in rows : TRUE IN r.totalPayout.w + SumWhole(rows \ {r})

RECURSIVE SumFrac(_)
SumFrac(rows) ==
    IF rows = {} THEN 0
    ELSE LET r == CHOOSE x \in rows : TRUE IN r.totalPayout.f + SumFrac(rows \ {r})

C22_BatchNeverAborts ==
    [][lastResult'.op = "processMontlyBatch" =>
          /\ lastResult'.error = "none"
          /\ Len(lastResult'.value.details) = Len(lastResult'.key.revenueMap)
          /\ \A i \in 1..Len(lastResult'.key.revenueMap) :
                lastResult'.value.details[i].status = "failed"
                    => lastResult'.value.details[i].reason # NoValue]_vars

\* C23: a run of processMontlyBatch with the year, month and revenue map of
\* the run that returned just before it creates no payout row: the ledger
\* is left as the first run left it.
C23_BatchRerunAddsNothing ==
    [][(/\ lastResult.op = "processMontlyBatch"
        /\ lastResult.error = "none"
        /\ lastResult'.op = "processMontlyBatch"
        /\ lastResult'.key = lastResult.key)
          => payouts' = payouts]_vars

\* ---------------------------------------------------------------------------
\* Batch evaluation claims
\* ---------------------------------------------------------------------------

\* C24: in an evaluateAllProviders call during which the evaluation of some
\* providers throws, every other provider with a stats row is evaluated and
\* its assignment saved with the tier of its result, the returned list has
\* exactly one result for each of these and none for a provider whose
\* evaluation threw, and the assignments of the providers whose evaluation
\* threw and of the providers without a stats row are left as they were.
C24_EvaluateAllIsolatesFailures ==
    [][lastResult'.op = "evaluateAllProviders" =>
          LET failing == lastResult'.key.failing
              results == lastResult'.value.results
              done    == DOMAIN stats \ failing
              of(q)   == {i \in 1..Len(results) : results[i].providerId = q}
          IN  /\ Len(results) = Cardinality(done)
              /\ \A q \in done :
                    /\ Cardinality(of(q)) = 1
                    /\ q \in DOMAIN assignments'
                    /\ \A i \in of(q) :
                          /\ assignments'[q].currentTier = results[i].newTier
                          /\ results[i].newTier = ResolveTierForMetrics(tierCache, MetricsOfStats(q))
                          /\ results[i].previousTier =
                                IF q \in DOMAIN assignments THEN assignments[q].currentTier
                                ELSE NoValue
              /\ \A q \in Providers \ done :
                    /\ of(q) = {}
                    /\ (q \in DOMAIN assignments') = (q \in DOMAIN assignments)
                    /\ q \in DOMAIN assignments => assignments'[q] = assignments[q]
              /\ payouts' = payouts]_vars

\* The evaluation of p1, the first provider, threw; p2 was evaluated and saved
C24_Witness ==
    /\ lastResult.op = "evaluateAllProviders"
    /\ lastResult.key.failing = {"p1"}
    /\ Len(lastResult.value.results) = 1
    /\ lastResult.value.results[1].providerId = "p2"
    /\ "p2" \in DOMAIN assignments
    /\ assignments["p2"].currentTier = lastResult.value.results[1].newTier

\* ---------------------------------------------------------------------------
\* Win-streak bonus claims
\* ---------------------------------------------------------------------------

\* A step that is a checkAndIssueStreakBonus call
StreakCall == lastResult'.op = "checkAndIssueStreakBonus" /\ now' = now /\ stats' = stats

\* The thresholds a streak n reaches and is a multiple of
ThresholdsHit(n) == {t \in {20, 10, 5} : n >= t /\ n % t = 0}

\* The bonus of the highest of them, zero when there is none
StreakBonusOf(n) ==
    IF 20 \in ThresholdsHit(n) THEN Dec(200, 0)
    ELSE IF 10 \in ThresholdsHit(n) THEN Dec(75, 0)
    ELSE IF 5 \in ThresholdsHit(n) THEN Dec(25, 0)
    ELSE Zero

\* The STREAK payouts of provider q created in the calendar month of time t
StreakRowsOfMonth(ledger, q, t) ==
    {i \in 1..Len(ledger) :
        /\ ledger[i].providerId = q
        /\ ledger[i].bonusType = "STREAK"
        /\ YearOf(ledger[i].createdAt) = YearOf(t)
        /\ MonthOf(ledger[i].createdAt) = MonthOf(t)}

\* C25: a checkAndIssueStreakBonus call for a provider with a streak of n, a
\* user record and no STREAK payout yet this month issues the bonus of the
\* highest threshold among 20, 10 and 5 that n reaches and is a multiple of
\* (200, 75, 25), as bonusAmount and as the amount of the payout, and issues
\* nothing and records no payout when there is no such threshold.
C25_StreakSelectsHighestMultiple ==
    [][(/\ StreakCall
        /\ lastResult'.key.providerId \in DOMAIN stats
        /\ UserFound(lastResult'.key.providerId)
        /\ StreakRowsOfMonth(payouts, lastResult'.key.providerId, now) = {}) =>
          LET q == lastResult'.key.providerId
              n == stats[q].streakWins
              r == lastResult'.value
          IN  /\ lastResult'.error = "none"
              /\ r.streakCount = n
              /\ r.bonusAmount = StreakBonusOf(n)
              /\ r.bonusIssued = (ThresholdsHit(n) # {})
              /\ IF ThresholdsHit(n) = {} THEN payouts' = payouts
                 ELSE /\ Len(payouts') = Len(payouts) + 1
                      /\ payouts'[Len(payouts')].bonusType = "STREAK"
                      /\ payouts'[Len(payouts')].bonusAmount = StreakBonusOf(n)
                      /\ payouts'[Len(payouts')].totalPayout = StreakBonusOf(n)
              /\ n = 10 => r.bonusAmount = Dec(75, 0)
              /\ n = 15 => r.bonusAmount = Dec(25, 0)
              /\ n = 30 => r.bonusAmount = Dec(75, 0)
              /\ n = 7 => ~r.bonusIssued]_vars

\* A streak of 30 was paid the bonus of the threshold 10
C25_Witness ==
    /\ lastResult.op = "checkAndIssueStreakBonus"
    /\ lastResult.error = "none"
    /\ lastResult.value.streakCount = 30
    /\ lastResult.value.bonusIssued
    /\ lastResult.value.bonusAmount = Dec(75, 0)
    /\ Len(payouts) >= 1
    /\ payouts[Len(payouts)].bonusType = "STREAK"
    /\ payouts[Len(payouts)].bonusAmount = Dec(75, 0)

\* C26: over any sequence of checkAndIssueStreakBonus calls the ledger holds
\* at most one STREAK payout per provider and calendar month; a call made
\* when the provider has a STREAK payout of the current month returns
\* bonusIssued = false and records nothing, whatever the streak; and
\* bonusIssued is true exactly when the call recorded a payout.
C26_OneStreakBonusPerMonth ==
    [][StreakCall =>
          LET q == lastResult'.key.providerId
          IN  /\ \A x \in Providers, t \in 0..now :
                    Cardinality(StreakRowsOfMonth(payouts', x, t)) <= 1
              /\ StreakRowsOfMonth(payouts, q, now) # {}
                    => /\ lastResult'.error = "none"
                       /\ ~lastResult'.value.bonusIssued
                       /\ payouts' = payouts
              /\ lastResult'.error # "none" => payouts' = payouts
              /\ lastResult'.error = "none"
                    => /\ lastResult'.value.bonusIssued = (payouts' # payouts)
                       /\ payouts' # payouts =>
                             /\ Len(payouts') = Len(payouts) + 1
                             /\ SubSeq(payouts', 1, Len(payouts)) = payouts
                             /\ payouts'[Len(payouts')].providerId = q
                             /\ payouts'[Len(payouts')].bonusType = "STREAK"]_vars

\* A second check of p1 in the month of its STREAK payout, the streak now at
\* 20, issued nothing
C26_Witness ==
    /\ lastResult.op = "checkAndIssueStreakBonus"
    /\ lastResult.key.providerId = "p1"
    /\ lastResult.error = "none"
    /\ ~lastResult.value.bonusIssued
    /\ lastResult.value.streakCount = 20
    /\ StreakRowsOfMonth(payouts, "p1", now) # {}

\* ---------------------------------------------------------------------------
\* Retention bonus claims
\* ---------------------------------------------------------------------------

\* An amount above zero, read off the digits
Positive(d) == ~d.neg /\ (d.w > 0 \/ d.f > 0)

\* C27: a runRetentionBonusRound(year, month) call adds to the ledger exactly
\* one PENDING bonus-only MONTHLY_TOP payout of the given period for each
\* provider whose current tier is ELITE or PLATINUM, whose tier has
\* monthlyRetentionBonusUsdc > 0 and who has a user record, and no payout
\* for any other provider; credited is the number of payouts added and
\* totalBonusUsdc the sum of their amounts.
C27_RetentionRoundPaysTopTiers ==
    [][lastResult'.op = "runRetentionBonusRound" =>
          LET r        == lastResult'.value
              added    == {payouts'[n] : n \in (Len(payouts) + 1)..Len(payouts')}
              eligible == {q \in DOMAIN assignments :
                              /\ assignments[q].currentTier \in {"ELITE", "PLATINUM"}
                              /\ assignments[q].currentTier \in DOMAIN tiers
                              /\ Positive(tiers[assignments[q].currentTier].monthlyRetentionBonusUsdc)
                              /\ UserFound(q)}
          IN  /\ SubSeq(payouts', 1, Len(payouts)) = payouts
              /\ \A q \in eligible :
                    Cardinality({row \in added : row.providerId = q}) = 1
              /\ \A row \in added :
                    /\ row.providerId \in eligible
                    /\ row.status = "PENDING"
                    /\ row.bonusType = "MONTHLY_TOP"
                    /\ row.baseRevenue = Zero
                    /\ row.revenueShareAmount = Zero
                    /\ row.tierLevel = assignments[row.providerId].currentTier
                    /\ row.bonusAmount = tiers[row.tierLevel].monthlyRetentionBonusUsdc
                    /\ row.totalPayout = row.bonusAmount
                    /\ row.periodYear = lastResult'.key.year
                    /\ row.periodMonth = lastResult'.key.month
              /\ r.credited = Cardinality(added)
              /\ r.totalBonusUsdc.w = SumWhole(added) + (SumFrac(added) \div Nano)
              /\ r.totalBonusUsdc.f = SumFrac(added) % Nano
              /\ ~r.totalBonusUsdc.neg]_vars

\* ---------------------------------------------------------------------------
\* Ledger entry claims
\* ---------------------------------------------------------------------------

\* C28: every row an operation adds to the ledger has assetCode USDC and the
\* status PENDING that recordPayout gave it, the one exception being the row
\* of an ELITE or PLATINUM provider that processProviderPayout, called on
\* its own or by the monthly batch, has escalated to PROCESSING before it
\* returns; its periodYear and periodMonth are the
\* period supplied to the operation, or the calendar year and month of the
\* clock when none was supplied; and no operation removes a row.
C28_RowsEnterPending ==
    [][LET op      == lastResult'.op
           key     == lastResult'.key
           added   == {payouts'[n] : n \in (Len(payouts) + 1)..Len(payouts')}
           current(row)     == row.periodYear = YearOf(now) /\ row.periodMonth = MonthOf(now)
           supplied(row, y, m) == row.periodYear = y /\ row.periodMonth = m
       IN  /\ Len(payouts') >= Len(payouts)
           /\ \A row \in added :
                 /\ row.assetCode = "USDC"
                 /\ \/ row.status = "PENDING"
                    \/ /\ op \in {"processProviderPayout", "processMontlyBatch"}
                       /\ row.status = "PROCESSING"
                       /\ row.tierLevel \in {"ELITE", "PLATINUM"}
                 /\ op = "recordPayout" =>
                       /\ row.status = "PENDING"
                       /\ IF key.periodYear = None THEN row.periodYear = YearOf(now)
                          ELSE row.periodYear = key.periodYear[1]
                       /\ IF key.periodMonth = None THEN row.periodMonth = MonthOf(now)
                          ELSE row.periodMonth = key.periodMonth[1]
                 /\ op \in {"processMontlyBatch", "runRetentionBonusRound"} =>
                       supplied(row, key.year, key.month)
                 /\ op \in {"awardPerformanceBonus", "checkAndIssueStreakBonus",
                            "evaluateProviderWithMetrics"} => current(row)
                 /\ op = "processProviderPayout" =>
                       (current(row) \/ supplied(row, 2025, 12))]_vars

\* recordPayout with the period 2025-12 supplied, called in a later month,
\* stored a PENDING row of that period
C28_Witness ==
    /\ lastResult.op = "recordPayout"
    /\ lastResult.key.periodYear = Some(2025)
    /\ now = MaxRecordClock
    /\ Len(payouts) >= 1
    /\ payouts[Len(payouts)] = lastResult.value
    /\ lastResult.value.status = "PENDING"
    /\ lastResult.value.assetCode = "USDC"
    /\ lastResult.value.periodYear = 2025
    /\ lastResult.value.periodMonth = 12

\* C29: what getPendingPayouts(limit) returned is made of rows of the ledger
\* whose status is PENDING, each at most once, in non-decreasing order of
\* createdAt; it has min(limit, number of PENDING rows) rows, the limit
\* being 50 when none is given; and no PENDING row left out is older than
\* a row returned.
C29_PendingOldestFirstCapped ==
    lastResult.op = "getPendingPayouts" =>
        LET rows    == lastResult.value.rows
            limit   == IF lastResult.key.limit = None THEN 50 ELSE lastResult.key.limit[1]
            pending == {i \in 1..Len(payouts) : payouts[i].status = "PENDING"}
            left    == {i \in pending : \A k \in 1..Len(rows) : rows[k].id # i}
        IN  /\ \A k \in 1..Len(rows) :
                  /\ rows[k].status = "PENDING"
                  /\ rows[k].id \in pending
                  /\ rows[k] = payouts[rows[k].id]
            /\ \A k, l \in 1..Len(rows) :
                  k < l => /\ rows[k].id # rows[l].id
                           /\ rows[k].createdAt <= rows[l].createdAt
            /\ Len(rows) = IF limit < Cardinality(pending) THEN limit ELSE Cardinality(pending)
            /\ \A i \in left, k \in 1..Len(rows) : payouts[i].createdAt >= rows[k].createdAt

\* With limit 1 and two PENDING rows of different times, and a PROCESSING
\* row, the older PENDING row was returned
C29_Witness ==
    /\ lastResult.op = "getPendingPayouts"
    /\ lastResult.key.limit = Some(1)
    /\ Len(lastResult.value.rows) = 1
    /\ \E i, j, k \in 1..Len(payouts) :
          /\ payouts[i].status = "PENDING"
          /\ payouts[j].status = "PENDING"
          /\ payouts[k].status = "PROCESSING"
          /\ payouts[i].createdAt < payouts[j].createdAt
          /\ lastResult.value.rows[1].id = i

\* C30: an evaluation, whether it promotes, demotes or leaves the tier as
\* it is, keeps every payout row of the ledger as it was, adding rows at the
\* end only, keeps every assignment, and leaves promotionBonusPaid true
\* wherever it was true.
C30_EvaluationKeepsPaidBonus ==
    [][lastResult'.op = "evaluateProviderWithMetrics" =>
          /\ Len(payouts') >= Len(payouts)
          /\ SubSeq(payouts', 1, Len(payouts)) = payouts
          /\ \A q \in DOMAIN assignments :
                /\ q \in DOMAIN assignments'
                /\ assignments[q].promotionBonusPaid => assignments'[q].promotionBonusPaid]_vars

\* p1, paid the promotion bonus of SILVER, was demoted to BRONZE: the payout
\* is in the ledger and promotionBonusPaid is still true
C30_Witness ==
    /\ lastResult.op = "evaluateProviderWithMetrics"
    /\ lastResult.value.demoted
    /\ lastResult.value.newTier = "BRONZE"
    /\ "p1" \in DOMAIN assignments
    /\ assignments["p1"].promotionBonusPaid
    /\ \E i \in 1..Len(payouts) :
          /\ payouts[i].providerId = "p1"
          /\ payouts[i].bonusType = "PERFORMANCE"
          /\ payouts[i].tierLevel = "SILVER"

-----------------------------------------------------------------------------
(* Tier cache claims.                                                      *)

\* C31: whenever no updateTierConfig call is in progress, the tier cache is
\* the list of the stored active tiers ordered by sortOrder, after any
\* updateTierConfig calls and however their steps interleave.
C31_CacheFreshWhenQuiet ==
    (\A e \in EvalIds : evals[e].pc = "idle") => tierCache = ActiveTiersSorted(tiers)

-----------------------------------------------------------------------------
(* Assignment claims.                                                      *)

\* The last call is an evaluation that returned
EvaluationReturned(r) ==
    /\ r.op \in {"evaluateProviderWithMetrics", "evaluateProvider"}
    /\ r.error = "none"

\* The metrics the evaluation r was made with
MetricsEvaluated(r) ==
    IF r.op = "evaluateProvider" THEN MetricsOfStats(r.key.providerId) ELSE r.key

\* C32: after every evaluation that returns, the provider has an assignment
\* whose currentTier is the tier resolved from the metrics of the call, whose
\* snapshot fields are those metrics and whose lastEvaluatedAt is the time
\* of the call, also when the tier did not change.
C32_EvaluationRecordsFreshness ==
    [][(EvaluationReturned(lastResult') /\ now' = now) =>
          LET m == MetricsEvaluated(lastResult')
              p == m.providerId
          IN  /\ p \in DOMAIN assignments'
              /\ assignments'[p].currentTier = ResolveTierForMetrics(tierCache, m)
              /\ assignments'[p].winRateSnapshot = m.winRate
              /\ assignments'[p].signalsSnapshot = m.totalSignals
              /\ assignments'[p].copiersSnapshot = m.totalCopiers
              /\ assignments'[p].reputationSnapshot = m.reputationScore
              /\ assignments'[p].lastEvaluatedAt = now]_vars

\* p1, evaluated before, was evaluated again at a later time with metrics
\* that leave its tier as it was
C32_Witness ==
    /\ lastResult.op = "evaluateProviderWithMetrics"
    /\ lastResult.error = "none"
    /\ ~lastResult.value.promoted
    /\ ~lastResult.value.demoted
    /\ lastResult.value.previousTier = lastResult.value.newTier
    /\ now > 0
    /\ assignments["p1"].lastEvaluatedAt = now

C34_NoWalletNoPromotionPayout ==
    [][(\/ lastResult'.op \in {"evaluateProvider", "evaluateAllProviders",
                               "calculateRevenueShare"}
        \/ /\ lastResult'.op = "evaluateProviderWithMetrics"
           /\ lastResult'.key.walletAddress = "")
       => payouts' = payouts]_vars

\* evaluateProvider promoted p1, demoted before, to the tier of its stats
\* row, whose promotion bonus is positive, and no payout was recorded for it
C34_Witness ==
    /\ lastResult.op = "evaluateProvider"
    /\ lastResult.key.providerId = "p1"
    /\ lastResult.value.promoted
    /\ DecGt0(CachedTier(tierCache, lastResult.value.newTier).performanceBonusUsdc)
    /\ ~lastResult.value.bonusTriggered
    /\ payouts = <<>>

-----------------------------------------------------------------------------
(* Payout status claims under interleaving.                                *)

\* C35: no step gives the status PROCESSING to a payout that is COMPLETED
\* or FAILED: the auto-escalation of processProviderPayout moves its payout
\* from PENDING to PROCESSING only, whatever the dispatcher did to the
\* payout since it was recorded.
C35_EscalationFromPendingOnly ==
    [][\A i \in PayoutIds :
          payouts[i].status \in {"COMPLETED", "FAILED"} => payouts'[i].status # "PROCESSING"]_vars

\* A markPayoutFailed call on payout i completes in this step
FailCompletes(i) ==
    \E e \in EvalIds :
        /\ evals[e].pc = "fail_saving"
        /\ evals[e].id = i
        /\ evals'[e].pc = "idle"

\* C36: the retryCount of a payout counts the markPayoutFailed calls that
\* completed on it: a step in which such a call completes adds exactly one
\* to it, also while another such call is in flight, and every other step
\* (retryFailedPayout, confirmPayout, a call starting) leaves it as it was.
C36_RetryCountCountsFailures ==
    [][\A i \in PayoutIds :
          payouts'[i].retryCount =
              payouts[i].retryCount + (IF FailCompletes(i) THEN 1 ELSE 0)]_vars

-----------------------------------------------------------------------------
(* Monthly batch claims: the rows of a run.                                *)

\* C37: when processMontlyBatch returns, the payout rows the run added to
\* the ledger are those of the providers its details report as success, in
\* that order: a provider reported as failed or skipped has no row of the
\* run, also when its payout failed after it was recorded.
C37_BatchRowsAreSuccesses ==
    [][(lastResult'.op = "processMontlyBatch" /\ lastResult'.error = "none") =>
          LET rows == SubSeq(payouts', Len(payouts) + 1, Len(payouts'))
              succ == SelectSeq(lastResult'.value.details, LAMBDA d : d.status = "success")
          IN  /\ Len(rows) = Len(succ)
              /\ \A i \in 1..Len(rows) : rows[i].providerId = succ[i].providerId]_vars

\* C38: in every reachable state the ledger holds, for each provider and
\* billing period (year, month), at most one payout with bonusType
\* MONTHLY_TOP, however many monthly batches and retention bonus rounds ran
\* for the period.
C38_OneMonthlyTopPerPeriod ==
    \A i, j \in PayoutIds :
        (/\ payouts[i].bonusType = "MONTHLY_TOP"
         /\ payouts[j].bonusType = "MONTHLY_TOP"
         /\ payouts[i].providerId = payouts[j].providerId
         /\ payouts[i].periodYear = payouts[j].periodYear
         /\ payouts[i].periodMonth = payouts[j].periodMonth) => i = j

-----------------------------------------------------------------------------
(* Tier resolution claims: monotonicity.                                   *)

\* Metrics b are at least metrics a in all four components
MetricsAtLeast(b, a) ==
    /\ b.winRate >= a.winRate
    /\ b.totalSignals >= a.totalSignals
    /\ b.totalCopiers >= a.totalCopiers
    /\ b.reputationScore >= a.reputationScore

\* C39: whatever the cache holds, when resolveTierForMetrics has resolved
\* metrics m, every metrics that are at least m in all four components
\* resolve to a tier that ranks at least as high.
C39_ResolveMonotone ==
    lastResult.op = "resolveTierForMetrics" =>
        \A b \in MonotoneMetrics :
            MetricsAtLeast(b, lastResult.key) =>
                TierIndex(ResolveTierForMetrics(tierCache, b))
                    >= TierIndex(lastResult.value.tierLevel)

\* With BRONZE switched off and SILVER's win rate threshold above GOLD's,
\* metrics that reach GOLD and not SILVER were resolved to GOLD, and there
\* are better metrics that reach SILVER too
C39_Witness ==
    /\ lastResult.op = "resolveTierForMetrics"
    /\ lastResult.value.tierLevel = "GOLD"
    /\ CachedTier(tierCache, "BRONZE") = Null
    /\ CachedTier(tierCache, "SILVER") # Null
    /\ ~Qualifies(lastResult.key, CachedTier(tierCache, "SILVER"))
    /\ \E b \in MonotoneMetrics :
          /\ b # lastResult.key
          /\ MetricsAtLeast(b, lastResult.key)
          /\ Qualifies(b, CachedTier(tierCache, "SILVER"))

=============================================================================
